---- MODULE Spec2Model ----
(***************************************************************************)
(* Model of Identify_18_BetaTurn_Types.py: the residue feature table, the  *)
(* window gate, the nearest-medoid classifier and the scan of main().      *)
(*                                                                         *)
(* Fixed-point conventions (TLC has integers only):                        *)
(*   - angles are integers in hundredths of a degree (184.88 -> 18488);    *)
(*   - cosines and per-angle distances are in millionths (1.0 -> 1000000); *)
(*   - a mean distance D = (d1 + ... + d7)/7.0 is kept as the integer      *)
(*     d1 + ... + d7, i.e. in units of 1/7 of a millionth, so that the     *)
(*     division by 7.0 loses nothing and D < minD, minD <= cutoff compare  *)
(*     exactly as the quotients do;                                        *)
(*   - coordinates and lengths are in hundredths of an Angstrom.           *)
(***************************************************************************)
EXTENDS Integers, Sequences, FiniteSets, TLC

VARIABLES
  structure,       \* structure1: the parsed models/chains/residues (input)
  seqscheme_dict,  \* (auth chain, str(auth seq num)) -> asym_id, seq_id
  dssp_dict,       \* (label_asym_id, label_seq_id) -> annotator row
  datadict,        \* insertion-ordered: one entry per chain with >= 4 residues
  pc,              \* position in main(): "start" .. "parse", "build", "scan", "done"
  ci,              \* index of the chain the build loop / scan loop is at
  wi,              \* the scan's window start index i (0-based)
  nturns,          \* turn counter
  out,             \* the turn records printed so far
  err,             \* number of warnings written to stderr
  turnlibrary,     \* the 18 turn types, in insertion order
  minturn,         \* main's local minturn ("unbound" until first assigned)
  log,             \* history: what the scan did with each window it visited
  env,             \* what the run finds: the files, the annotator's exit, the content
  handles,         \* the file objects that are open
  files,           \* the files the run has written and not removed
  raised,          \* the exception that ended main, if any
  call             \* the last call of angle_distance or find_theta_in_degrees

vars == <<structure, seqscheme_dict, dssp_dict, datadict, pc, ci, wi, nturns, out, err,
          turnlibrary, minturn, log, env, handles, files, raised, call>>

-----------------------------------------------------------------------------
(* Bounds of the model *)

\* longest chain (number of residues) in an input structure
MaxLen == 5

\* largest number of chains in an input structure
MaxChains == 2

\* largest number of residues of a chain that deviate from the regular residue
MaxDefects == 2

\* the angles the numerical functions are tried on reach MaxSteps * 30 degrees
MaxSteps == 12

-----------------------------------------------------------------------------
(* Program constants *)

\* 999.0, the value of an angle that could not be computed
SENTINEL == 99900

\* 1.0 in millionths
ONE == 1000000

\* TURN_DIST_CUTOFF = 0.2359, as 7 * 0.2359 millionths (unit of a mean distance)
TURN_DIST_CUTOFF == 1651300

\* a plausible slip: the minimum started at 1.0, a distance some windows exceed
MIND_START_low == 7 * ONE

\* minD = 100.0 before the cluster loop, as 7 * 100.0 millionths
MIND_START == 700000000

\* 7.0 Angstrom, the largest CA1-CA4 distance of a turn
CA_CUTOFF == 700

\* D = 4 (the largest distance find_theta_in_degrees accepts), as 7 * 4.0 millionths
THETA_MAX_D == 28000000

-----------------------------------------------------------------------------
(* math.cos on the hundredth-of-a-degree grid: CosTable[h + 1] is          *)
(* cos(h/100 degrees) in millionths, rounded to nearest, h = 0 .. 9000.     *)
CosTable ==
  <<
  1000000, 1000000, 1000000, 1000000, 1000000, 1000000, 999999, 999999, 999999, 999999, 999998, 999998, 999998, 999997, 999997,
  999997, 999996, 999996, 999995, 999995, 999994, 999993, 999993, 999992, 999991, 999990, 999990, 999989, 999988, 999987,
  999986, 999985, 999984, 999983, 999982, 999981, 999980, 999979, 999978, 999977, 999976, 999974, 999973, 999972, 999971,
  999969, 999968, 999966, 999965, 999963, 999962, 999960, 999959, 999957, 999956, 999954, 999952, 999951, 999949, 999947,
  999945, 999943, 999941, 999940, 999938, 999936, 999934, 999932, 999930, 999927, 999925, 999923, 999921, 999919, 999917,
  999914, 999912, 999910, 999907, 999905, 999903, 999900, 999898, 999895, 999893, 999890, 999887, 999885, 999882, 999879,
  999877, 999874, 999871, 999868, 999865, 999863, 999860, 999857, 999854, 999851, 999848, 999845, 999842, 999838, 999835,
  999832, 999829, 999826, 999822, 999819, 999816, 999812, 999809, 999806, 999802, 999799, 999795, 999792, 999788, 999784,
  999781, 999777, 999773, 999770, 999766, 999762, 999758, 999754, 999750, 999747, 999743, 999739, 999735, 999731, 999727,
  999722, 999718, 999714, 999710, 999706, 999701, 999697, 999693, 999689, 999684, 999680, 999675, 999671, 999666, 999662,
  999657, 999653, 999648, 999643, 999639, 999634, 999629, 999625, 999620, 999615, 999610, 999605, 999600, 999595, 999590,
  999585, 999580, 999575, 999570, 999565, 999560, 999555, 999549, 999544, 999539, 999534, 999528, 999523, 999517, 999512,
  999507, 999501, 999496, 999490, 999484, 999479, 999473, 999467, 999462, 999456, 999450, 999444, 999439, 999433, 999427,
  999421, 999415, 999409, 999403, 999397, 999391, 999385, 999379, 999372, 999366, 999360, 999354, 999347, 999341, 999335,
  999328, 999322, 999316, 999309, 999303, 999296, 999289, 999283, 999276, 999270, 999263, 999256, 999249, 999243, 999236,
  999229, 999222, 999215, 999208, 999201, 999194, 999187, 999180, 999173, 999166, 999159, 999152, 999145, 999137, 999130,
  999123, 999116, 999108, 999101, 999093, 999086, 999078, 999071, 999063, 999056, 999048, 999041, 999033, 999025, 999018,
  999010, 999002, 998994, 998986, 998978, 998971, 998963, 998955, 998947, 998939, 998931, 998923, 998914, 998906, 998898,
  998890, 998882, 998873, 998865, 998857, 998848, 998840, 998832, 998823, 998815, 998806, 998798, 998789, 998780, 998772,
  998763, 998754, 998746, 998737, 998728, 998719, 998711, 998702, 998693, 998684, 998675, 998666, 998657, 998648, 998639,
  998630, 998620, 998611, 998602, 998593, 998583, 998574, 998565, 998555, 998546, 998537, 998527, 998518, 998508, 998499,
  998489, 998479, 998470, 998460, 998450, 998441, 998431, 998421, 998411, 998402, 998392, 998382, 998372, 998362, 998352,
  998342, 998332, 998322, 998312, 998301, 998291, 998281, 998271, 998260, 998250, 998240, 998229, 998219, 998209, 998198,
  998188, 998177, 998167, 998156, 998145, 998135, 998124, 998113, 998103, 998092, 998081, 998070, 998059, 998049, 998038,
  998027, 998016, 998005, 997994, 997983, 997972, 997960, 997949, 997938, 997927, 997916, 997904, 997893, 997882, 997870,
  997859, 997847, 997836, 997825, 997813, 997801, 997790, 997778, 997767, 997755, 997743, 997732, 997720, 997708, 997696,
  997684, 997672, 997660, 997649, 997637, 997625, 997613, 997600, 997588, 997576, 997564, 997552, 997540, 997527, 997515,
  997503, 997490, 997478, 997466, 997453, 997441, 997428, 997416, 997403, 997391, 997378, 997365, 997353, 997340, 997327,
  997314, 997302, 997289, 997276, 997263, 997250, 997237, 997224, 997211, 997198, 997185, 997172, 997159, 997146, 997133,
  997119, 997106, 997093, 997079, 997066, 997053, 997039, 997026, 997012, 996999, 996985, 996972, 996958, 996945, 996931,
  996917, 996904, 996890, 996876, 996862, 996848, 996835, 996821, 996807, 996793, 996779, 996765, 996751, 996737, 996723,
  996709, 996694, 996680, 996666, 996652, 996637, 996623, 996609, 996594, 996580, 996566, 996551, 996537, 996522, 996507,
  996493, 996478, 996464, 996449, 996434, 996419, 996405, 996390, 996375, 996360, 996345, 996330, 996315, 996300, 996285,
  996270, 996255, 996240, 996225, 996210, 996195, 996179, 996164, 996149, 996134, 996118, 996103, 996087, 996072, 996057,
  996041, 996026, 996010, 995994, 995979, 995963, 995947, 995932, 995916, 995900, 995884, 995869, 995853, 995837, 995821,
  995805, 995789, 995773, 995757, 995741, 995725, 995709, 995692, 995676, 995660, 995644, 995627, 995611, 995595, 995578,
  995562, 995546, 995529, 995513, 995496, 995479, 995463, 995446, 995430, 995413, 995396, 995379, 995363, 995346, 995329,
  995312, 995295, 995278, 995261, 995244, 995227, 995210, 995193, 995176, 995159, 995142, 995125, 995107, 995090, 995073,
  995056, 995038, 995021, 995003, 994986, 994969, 994951, 994933, 994916, 994898, 994881, 994863, 994845, 994828, 994810,
  994792, 994774, 994757, 994739, 994721, 994703, 994685, 994667, 994649, 994631, 994613, 994595, 994576, 994558, 994540,
  994522, 994504, 994485, 994467, 994449, 994430, 994412, 994393, 994375, 994356, 994338, 994319, 994301, 994282, 994264,
  994245, 994226, 994207, 994189, 994170, 994151, 994132, 994113, 994094, 994075, 994056, 994037, 994018, 993999, 993980,
  993961, 993942, 993923, 993903, 993884, 993865, 993845, 993826, 993807, 993787, 993768, 993748, 993729, 993709, 993690,
  993670, 993651, 993631, 993611, 993592, 993572, 993552, 993532, 993512, 993493, 993473, 993453, 993433, 993413, 993393,
  993373, 993353, 993333, 993312, 993292, 993272, 993252, 993232, 993211, 993191, 993171, 993150, 993130, 993109, 993089,
  993068, 993048, 993027, 993007, 992986, 992966, 992945, 992924, 992903, 992883, 992862, 992841, 992820, 992799, 992778,
  992757, 992736, 992715, 992694, 992673, 992652, 992631, 992610, 992589, 992567, 992546, 992525, 992504, 992482, 992461,
  992439, 992418, 992397, 992375, 992353, 992332, 992310, 992289, 992267, 992245, 992224, 992202, 992180, 992158, 992137,
  992115, 992093, 992071, 992049, 992027, 992005, 991983, 991961, 991939, 991917, 991894, 991872, 991850, 991828, 991805,
  991783, 991761, 991738, 991716, 991694, 991671, 991649, 991626, 991604, 991581, 991558, 991536, 991513, 991490, 991468,
  991445, 991422, 991399, 991376, 991353, 991331, 991308, 991285, 991262, 991239, 991216, 991192, 991169, 991146, 991123,
  991100, 991076, 991053, 991030, 991007, 990983, 990960, 990936, 990913, 990889, 990866, 990842, 990819, 990795, 990772,
  990748, 990724, 990700, 990677, 990653, 990629, 990605, 990581, 990557, 990533, 990509, 990485, 990461, 990437, 990413,
  990389, 990365, 990341, 990317, 990292, 990268, 990244, 990219, 990195, 990171, 990146, 990122, 990097, 990073, 990048,
  990024, 989999, 989974, 989950, 989925, 989900, 989876, 989851, 989826, 989801, 989776, 989751, 989726, 989701, 989676,
  989651, 989626, 989601, 989576, 989551, 989526, 989501, 989475, 989450, 989425, 989399, 989374, 989349, 989323, 989298,
  989272, 989247, 989221, 989196, 989170, 989144, 989119, 989093, 989067, 989042, 989016, 988990, 988964, 988938, 988912,
  988886, 988861, 988835, 988809, 988782, 988756, 988730, 988704, 988678, 988652, 988626, 988599, 988573, 988547, 988520,
  988494, 988467, 988441, 988415, 988388, 988362, 988335, 988308, 988282, 988255, 988228, 988202, 988175, 988148, 988121,
  988094, 988068, 988041, 988014, 987987, 987960, 987933, 987906, 987879, 987852, 987824, 987797, 987770, 987743, 987716,
  987688, 987661, 987634, 987606, 987579, 987551, 987524, 987496, 987469, 987441, 987414, 987386, 987359, 987331, 987303,
  987275, 987248, 987220, 987192, 987164, 987136, 987108, 987080, 987052, 987024, 986996, 986968, 986940, 986912, 986884,
  986856, 986827, 986799, 986771, 986743, 986714, 986686, 986658, 986629, 986601, 986572, 986544, 986515, 986487, 986458,
  986429, 986401, 986372, 986343, 986314, 986286, 986257, 986228, 986199, 986170, 986141, 986112, 986083, 986054, 986025,
  985996, 985967, 985938, 985909, 985879, 985850, 985821, 985792, 985762, 985733, 985703, 985674, 985645, 985615, 985586,
  985556, 985526, 985497, 985467, 985438, 985408, 985378, 985348, 985319, 985289, 985259, 985229, 985199, 985169, 985139,
  985109, 985079, 985049, 985019, 984989, 984959, 984929, 984899, 984868, 984838, 984808, 984777, 984747, 984717, 984686,
  984656, 984625, 984595, 984564, 984534, 984503, 984473, 984442, 984411, 984381, 984350, 984319, 984288, 984257, 984227,
  984196, 984165, 984134, 984103, 984072, 984041, 984010, 983979, 983947, 983916, 983885, 983854, 983823, 983791, 983760,
  983729, 983697, 983666, 983634, 983603, 983571, 983540, 983508, 983477, 983445, 983414, 983382, 983350, 983318, 983287,
  983255, 983223, 983191, 983159, 983127, 983096, 983064, 983032, 983000, 982967, 982935, 982903, 982871, 982839, 982807,
  982774, 982742, 982710, 982678, 982645, 982613, 982580, 982548, 982515, 982483, 982450, 982418, 982385, 982353, 982320,
  982287, 982255, 982222, 982189, 982156, 982123, 982090, 982058, 982025, 981992, 981959, 981926, 981893, 981860, 981826,
  981793, 981760, 981727, 981694, 981660, 981627, 981594, 981561, 981527, 981494, 981460, 981427, 981393, 981360, 981326,
  981293, 981259, 981225, 981192, 981158, 981124, 981091, 981057, 981023, 980989, 980955, 980921, 980887, 980853, 980819,
  980785, 980751, 980717, 980683, 980649, 980615, 980580, 980546, 980512, 980478, 980443, 980409, 980375, 980340, 980306,
  980271, 980237, 980202, 980168, 980133, 980098, 980064, 980029, 979994, 979959, 979925, 979890, 979855, 979820, 979785,
  979750, 979715, 979680, 979645, 979610, 979575, 979540, 979505, 979470, 979435, 979399, 979364, 979329, 979294, 979258,
  979223, 979187, 979152, 979116, 979081, 979045, 979010, 978974, 978939, 978903, 978867, 978832, 978796, 978760, 978724,
  978689, 978653, 978617, 978581, 978545, 978509, 978473, 978437, 978401, 978365, 978329, 978293, 978256, 978220, 978184,
  978148, 978111, 978075, 978039, 978002, 977966, 977929, 977893, 977856, 977820, 977783, 977747, 977710, 977673, 977637,
  977600, 977563, 977526, 977490, 977453, 977416, 977379, 977342, 977305, 977268, 977231, 977194, 977157, 977120, 977083,
  977046, 977008, 976971, 976934, 976897, 976859, 976822, 976785, 976747, 976710, 976672, 976635, 976597, 976560, 976522,
  976485, 976447, 976409, 976371, 976334, 976296, 976258, 976220, 976183, 976145, 976107, 976069, 976031, 975993, 975955,
  975917, 975879, 975841, 975802, 975764, 975726, 975688, 975650, 975611, 975573, 975535, 975496, 975458, 975419, 975381,
  975342, 975304, 975265, 975227, 975188, 975149, 975111, 975072, 975033, 974994, 974956, 974917, 974878, 974839, 974800,
  974761, 974722, 974683, 974644, 974605, 974566, 974527, 974488, 974449, 974409, 974370, 974331, 974291, 974252, 974213,
  974173, 974134, 974095, 974055, 974016, 973976, 973936, 973897, 973857, 973817, 973778, 973738, 973698, 973659, 973619,
  973579, 973539, 973499, 973459, 973419, 973379, 973339, 973299, 973259, 973219, 973179, 973139, 973099, 973058, 973018,
  972978, 972937, 972897, 972857, 972816, 972776, 972735, 972695, 972654, 972614, 972573, 972533, 972492, 972451, 972411,
  972370, 972329, 972288, 972248, 972207, 972166, 972125, 972084, 972043, 972002, 971961, 971920, 971879, 971838, 971797,
  971755, 971714, 971673, 971632, 971590, 971549, 971508, 971466, 971425, 971384, 971342, 971301, 971259, 971217, 971176,
  971134, 971093, 971051, 971009, 970968, 970926, 970884, 970842, 970800, 970758, 970716, 970675, 970633, 970591, 970549,
  970506, 970464, 970422, 970380, 970338, 970296, 970253, 970211, 970169, 970127, 970084, 970042, 969999, 969957, 969915,
  969872, 969829, 969787, 969744, 969702, 969659, 969616, 969574, 969531, 969488, 969445, 969403, 969360, 969317, 969274,
  969231, 969188, 969145, 969102, 969059, 969016, 968973, 968929, 968886, 968843, 968800, 968757, 968713, 968670, 968627,
  968583, 968540, 968496, 968453, 968409, 968366, 968322, 968279, 968235, 968191, 968148, 968104, 968060, 968016, 967973,
  967929, 967885, 967841, 967797, 967753, 967709, 967665, 967621, 967577, 967533, 967489, 967445, 967400, 967356, 967312,
  967268, 967223, 967179, 967135, 967090, 967046, 967001, 966957, 966912, 966868, 966823, 966779, 966734, 966690, 966645,
  966600, 966555, 966511, 966466, 966421, 966376, 966331, 966286, 966241, 966196, 966151, 966106, 966061, 966016, 965971,
  965926, 965881, 965835, 965790, 965745, 965700, 965654, 965609, 965564, 965518, 965473, 965427, 965382, 965336, 965291,
  965245, 965199, 965154, 965108, 965062, 965016, 964971, 964925, 964879, 964833, 964787, 964741, 964695, 964649, 964603,
  964557, 964511, 964465, 964419, 964373, 964327, 964281, 964234, 964188, 964142, 964095, 964049, 964003, 963956, 963910,
  963863, 963817, 963770, 963724, 963677, 963630, 963584, 963537, 963490, 963444, 963397, 963350, 963303, 963256, 963209,
  963163, 963116, 963069, 963022, 962975, 962928, 962880, 962833, 962786, 962739, 962692, 962645, 962597, 962550, 962503,
  962455, 962408, 962360, 962313, 962266, 962218, 962170, 962123, 962075, 962028, 961980, 961932, 961885, 961837, 961789,
  961741, 961693, 961646, 961598, 961550, 961502, 961454, 961406, 961358, 961310, 961262, 961214, 961165, 961117, 961069,
  961021, 960973, 960924, 960876, 960828, 960779, 960731, 960682, 960634, 960585, 960537, 960488, 960440, 960391, 960342,
  960294, 960245, 960196, 960147, 960099, 960050, 960001, 959952, 959903, 959854, 959805, 959756, 959707, 959658, 959609,
  959560, 959511, 959462, 959412, 959363, 959314, 959265, 959215, 959166, 959117, 959067, 959018, 958968, 958919, 958869,
  958820, 958770, 958721, 958671, 958621, 958572, 958522, 958472, 958422, 958372, 958323, 958273, 958223, 958173, 958123,
  958073, 958023, 957973, 957923, 957873, 957822, 957772, 957722, 957672, 957622, 957571, 957521, 957471, 957420, 957370,
  957319, 957269, 957219, 957168, 957117, 957067, 957016, 956966, 956915, 956864, 956814, 956763, 956712, 956661, 956610,
  956560, 956509, 956458, 956407, 956356, 956305, 956254, 956203, 956152, 956100, 956049, 955998, 955947, 955896, 955844,
  955793, 955742, 955690, 955639, 955588, 955536, 955485, 955433, 955382, 955330, 955278, 955227, 955175, 955123, 955072,
  955020, 954968, 954916, 954865, 954813, 954761, 954709, 954657, 954605, 954553, 954501, 954449, 954397, 954345, 954293,
  954240, 954188, 954136, 954084, 954031, 953979, 953927, 953874, 953822, 953769, 953717, 953664, 953612, 953559, 953507,
  953454, 953402, 953349, 953296, 953243, 953191, 953138, 953085, 953032, 952979, 952926, 952874, 952821, 952768, 952715,
  952661, 952608, 952555, 952502, 952449, 952396, 952343, 952289, 952236, 952183, 952129, 952076, 952023, 951969, 951916,
  951862, 951809, 951755, 951702, 951648, 951594, 951541, 951487, 951433, 951380, 951326, 951272, 951218, 951164, 951110,
  951057, 951003, 950949, 950895, 950841, 950786, 950732, 950678, 950624, 950570, 950516, 950461, 950407, 950353, 950299,
  950244, 950190, 950135, 950081, 950027, 949972, 949918, 949863, 949808, 949754, 949699, 949644, 949590, 949535, 949480,
  949425, 949371, 949316, 949261, 949206, 949151, 949096, 949041, 948986, 948931, 948876, 948821, 948766, 948711, 948655,
  948600, 948545, 948490, 948434, 948379, 948324, 948268, 948213, 948157, 948102, 948046, 947991, 947935, 947880, 947824,
  947768, 947713, 947657, 947601, 947546, 947490, 947434, 947378, 947322, 947266, 947210, 947154, 947098, 947042, 946986,
  946930, 946874, 946818, 946762, 946705, 946649, 946593, 946537, 946480, 946424, 946368, 946311, 946255, 946198, 946142,
  946085, 946029, 945972, 945916, 945859, 945802, 945746, 945689, 945632, 945575, 945519, 945462, 945405, 945348, 945291,
  945234, 945177, 945120, 945063, 945006, 944949, 944892, 944835, 944777, 944720, 944663, 944606, 944548, 944491, 944434,
  944376, 944319, 944262, 944204, 944147, 944089, 944031, 943974, 943916, 943859, 943801, 943743, 943686, 943628, 943570,
  943512, 943454, 943396, 943339, 943281, 943223, 943165, 943107, 943049, 942991, 942932, 942874, 942816, 942758, 942700,
  942641, 942583, 942525, 942467, 942408, 942350, 942291, 942233, 942174, 942116, 942057, 941999, 941940, 941882, 941823,
  941764, 941706, 941647, 941588, 941529, 941471, 941412, 941353, 941294, 941235, 941176, 941117, 941058, 940999, 940940,
  940881, 940822, 940762, 940703, 940644, 940585, 940526, 940466, 940407, 940348, 940288, 940229, 940169, 940110, 940050,
  939991, 939931, 939872, 939812, 939752, 939693, 939633, 939573, 939513, 939454, 939394, 939334, 939274, 939214, 939154,
  939094, 939034, 938974, 938914, 938854, 938794, 938734, 938674, 938613, 938553, 938493, 938433, 938372, 938312, 938252,
  938191, 938131, 938070, 938010, 937949, 937889, 937828, 937768, 937707, 937646, 937586, 937525, 937464, 937404, 937343,
  937282, 937221, 937160, 937099, 937038, 936977, 936916, 936855, 936794, 936733, 936672, 936611, 936550, 936489, 936427,
  936366, 936305, 936244, 936182, 936121, 936060, 935998, 935937, 935875, 935814, 935752, 935691, 935629, 935567, 935506,
  935444, 935382, 935321, 935259, 935197, 935135, 935073, 935011, 934950, 934888, 934826, 934764, 934702, 934640, 934578,
  934515, 934453, 934391, 934329, 934267, 934204, 934142, 934080, 934018, 933955, 933893, 933830, 933768, 933705, 933643,
  933580, 933518, 933455, 933393, 933330, 933267, 933205, 933142, 933079, 933016, 932954, 932891, 932828, 932765, 932702,
  932639, 932576, 932513, 932450, 932387, 932324, 932261, 932198, 932134, 932071, 932008, 931945, 931881, 931818, 931755,
  931691, 931628, 931564, 931501, 931437, 931374, 931310, 931247, 931183, 931119, 931056, 930992, 930928, 930865, 930801,
  930737, 930673, 930609, 930545, 930482, 930418, 930354, 930290, 930226, 930161, 930097, 930033, 929969, 929905, 929841,
  929776, 929712, 929648, 929584, 929519, 929455, 929390, 929326, 929262, 929197, 929133, 929068, 929003, 928939, 928874,
  928810, 928745, 928680, 928615, 928551, 928486, 928421, 928356, 928291, 928226, 928161, 928096, 928031, 927966, 927901,
  927836, 927771, 927706, 927641, 927576, 927510, 927445, 927380, 927315, 927249, 927184, 927118, 927053, 926988, 926922,
  926857, 926791, 926725, 926660, 926594, 926529, 926463, 926397, 926332, 926266, 926200, 926134, 926068, 926002, 925937,
  925871, 925805, 925739, 925673, 925607, 925541, 925474, 925408, 925342, 925276, 925210, 925143, 925077, 925011, 924945,
  924878, 924812, 924745, 924679, 924613, 924546, 924480, 924413, 924346, 924280, 924213, 924146, 924080, 924013, 923946,
  923880, 923813, 923746, 923679, 923612, 923545, 923478, 923411, 923344, 923277, 923210, 923143, 923076, 923009, 922942,
  922875, 922807, 922740, 922673, 922605, 922538, 922471, 922403, 922336, 922268, 922201, 922133, 922066, 921998, 921931,
  921863, 921796, 921728, 921660, 921592, 921525, 921457, 921389, 921321, 921253, 921185, 921117, 921050, 920982, 920914,
  920845, 920777, 920709, 920641, 920573, 920505, 920437, 920368, 920300, 920232, 920164, 920095, 920027, 919958, 919890,
  919821, 919753, 919684, 919616, 919547, 919479, 919410, 919341, 919273, 919204, 919135, 919067, 918998, 918929, 918860,
  918791, 918722, 918653, 918584, 918515, 918446, 918377, 918308, 918239, 918170, 918101, 918032, 917962, 917893, 917824,
  917755, 917685, 917616, 917547, 917477, 917408, 917338, 917269, 917199, 917130, 917060, 916990, 916921, 916851, 916781,
  916712, 916642, 916572, 916502, 916433, 916363, 916293, 916223, 916153, 916083, 916013, 915943, 915873, 915803, 915733,
  915663, 915592, 915522, 915452, 915382, 915311, 915241, 915171, 915100, 915030, 914960, 914889, 914819, 914748, 914678,
  914607, 914537, 914466, 914395, 914325, 914254, 914183, 914112, 914042, 913971, 913900, 913829, 913758, 913687, 913616,
  913545, 913474, 913403, 913332, 913261, 913190, 913119, 913048, 912977, 912905, 912834, 912763, 912692, 912620, 912549,
  912477, 912406, 912335, 912263, 912192, 912120, 912049, 911977, 911905, 911834, 911762, 911690, 911619, 911547, 911475,
  911403, 911331, 911260, 911188, 911116, 911044, 910972, 910900, 910828, 910756, 910684, 910612, 910539, 910467, 910395,
  910323, 910251, 910178, 910106, 910034, 909961, 909889, 909816, 909744, 909672, 909599, 909527, 909454, 909381, 909309,
  909236, 909163, 909091, 909018, 908945, 908872, 908800, 908727, 908654, 908581, 908508, 908435, 908362, 908289, 908216,
  908143, 908070, 907997, 907924, 907851, 907777, 907704, 907631, 907558, 907484, 907411, 907338, 907264, 907191, 907117,
  907044, 906971, 906897, 906823, 906750, 906676, 906603, 906529, 906455, 906382, 906308, 906234, 906160, 906086, 906013,
  905939, 905865, 905791, 905717, 905643, 905569, 905495, 905421, 905347, 905272, 905198, 905124, 905050, 904976, 904901,
  904827, 904753, 904678, 904604, 904530, 904455, 904381, 904306, 904232, 904157, 904083, 904008, 903933, 903859, 903784,
  903709, 903635, 903560, 903485, 903410, 903335, 903260, 903186, 903111, 903036, 902961, 902886, 902811, 902736, 902660,
  902585, 902510, 902435, 902360, 902285, 902209, 902134, 902059, 901983, 901908, 901833, 901757, 901682, 901606, 901531,
  901455, 901380, 901304, 901228, 901153, 901077, 901001, 900926, 900850, 900774, 900698, 900622, 900547, 900471, 900395,
  900319, 900243, 900167, 900091, 900015, 899939, 899863, 899786, 899710, 899634, 899558, 899482, 899405, 899329, 899253,
  899176, 899100, 899023, 898947, 898871, 898794, 898718, 898641, 898564, 898488, 898411, 898334, 898258, 898181, 898104,
  898028, 897951, 897874, 897797, 897720, 897643, 897566, 897489, 897412, 897335, 897258, 897181, 897104, 897027, 896950,
  896873, 896796, 896718, 896641, 896564, 896486, 896409, 896332, 896254, 896177, 896099, 896022, 895944, 895867, 895789,
  895712, 895634, 895556, 895479, 895401, 895323, 895246, 895168, 895090, 895012, 894934, 894856, 894779, 894701, 894623,
  894545, 894467, 894389, 894310, 894232, 894154, 894076, 893998, 893920, 893841, 893763, 893685, 893607, 893528, 893450,
  893371, 893293, 893214, 893136, 893057, 892979, 892900, 892822, 892743, 892664, 892586, 892507, 892428, 892350, 892271,
  892192, 892113, 892034, 891955, 891876, 891798, 891719, 891640, 891561, 891481, 891402, 891323, 891244, 891165, 891086,
  891007, 890927, 890848, 890769, 890689, 890610, 890531, 890451, 890372, 890292, 890213, 890133, 890054, 889974, 889895,
  889815, 889735, 889656, 889576, 889496, 889416, 889337, 889257, 889177, 889097, 889017, 888937, 888857, 888777, 888697,
  888617, 888537, 888457, 888377, 888297, 888217, 888136, 888056, 887976, 887896, 887815, 887735, 887655, 887574, 887494,
  887413, 887333, 887252, 887172, 887091, 887011, 886930, 886850, 886769, 886688, 886608, 886527, 886446, 886365, 886284,
  886204, 886123, 886042, 885961, 885880, 885799, 885718, 885637, 885556, 885475, 885394, 885312, 885231, 885150, 885069,
  884988, 884906, 884825, 884744, 884662, 884581, 884500, 884418, 884337, 884255, 884174, 884092, 884011, 883929, 883847,
  883766, 883684, 883602, 883521, 883439, 883357, 883275, 883193, 883111, 883030, 882948, 882866, 882784, 882702, 882620,
  882538, 882455, 882373, 882291, 882209, 882127, 882045, 881962, 881880, 881798, 881715, 881633, 881551, 881468, 881386,
  881303, 881221, 881138, 881056, 880973, 880891, 880808, 880725, 880643, 880560, 880477, 880395, 880312, 880229, 880146,
  880063, 879980, 879897, 879815, 879732, 879649, 879566, 879482, 879399, 879316, 879233, 879150, 879067, 878984, 878900,
  878817, 878734, 878650, 878567, 878484, 878400, 878317, 878233, 878150, 878067, 877983, 877899, 877816, 877732, 877649,
  877565, 877481, 877397, 877314, 877230, 877146, 877062, 876978, 876895, 876811, 876727, 876643, 876559, 876475, 876391,
  876307, 876223, 876138, 876054, 875970, 875886, 875802, 875717, 875633, 875549, 875465, 875380, 875296, 875211, 875127,
  875042, 874958, 874873, 874789, 874704, 874620, 874535, 874450, 874366, 874281, 874196, 874112, 874027, 873942, 873857,
  873772, 873687, 873602, 873517, 873432, 873347, 873262, 873177, 873092, 873007, 872922, 872837, 872752, 872667, 872581,
  872496, 872411, 872325, 872240, 872155, 872069, 871984, 871898, 871813, 871727, 871642, 871556, 871471, 871385, 871299,
  871214, 871128, 871042, 870957, 870871, 870785, 870699, 870613, 870528, 870442, 870356, 870270, 870184, 870098, 870012,
  869926, 869840, 869753, 869667, 869581, 869495, 869409, 869322, 869236, 869150, 869064, 868977, 868891, 868804, 868718,
  868632, 868545, 868459, 868372, 868285, 868199, 868112, 868026, 867939, 867852, 867765, 867679, 867592, 867505, 867418,
  867331, 867245, 867158, 867071, 866984, 866897, 866810, 866723, 866636, 866549, 866461, 866374, 866287, 866200, 866113,
  866025, 865938, 865851, 865763, 865676, 865589, 865501, 865414, 865326, 865239, 865151, 865064, 864976, 864889, 864801,
  864713, 864626, 864538, 864450, 864363, 864275, 864187, 864099, 864011, 863923, 863836, 863748, 863660, 863572, 863484,
  863396, 863307, 863219, 863131, 863043, 862955, 862867, 862779, 862690, 862602, 862514, 862425, 862337, 862249, 862160,
  862072, 861983, 861895, 861806, 861718, 861629, 861541, 861452, 861363, 861275, 861186, 861097, 861008, 860920, 860831,
  860742, 860653, 860564, 860475, 860386, 860297, 860208, 860119, 860030, 859941, 859852, 859763, 859674, 859585, 859496,
  859406, 859317, 859228, 859139, 859049, 858960, 858871, 858781, 858692, 858602, 858513, 858423, 858334, 858244, 858155,
  858065, 857975, 857886, 857796, 857706, 857616, 857527, 857437, 857347, 857257, 857167, 857077, 856987, 856898, 856808,
  856718, 856627, 856537, 856447, 856357, 856267, 856177, 856087, 855997, 855906, 855816, 855726, 855635, 855545, 855455,
  855364, 855274, 855183, 855093, 855002, 854912, 854821, 854731, 854640, 854549, 854459, 854368, 854277, 854187, 854096,
  854005, 853914, 853823, 853733, 853642, 853551, 853460, 853369, 853278, 853187, 853096, 853005, 852914, 852822, 852731,
  852640, 852549, 852458, 852366, 852275, 852184, 852093, 852001, 851910, 851818, 851727, 851635, 851544, 851452, 851361,
  851269, 851178, 851086, 850994, 850903, 850811, 850719, 850628, 850536, 850444, 850352, 850260, 850168, 850077, 849985,
  849893, 849801, 849709, 849617, 849525, 849433, 849340, 849248, 849156, 849064, 848972, 848879, 848787, 848695, 848603,
  848510, 848418, 848325, 848233, 848141, 848048, 847956, 847863, 847771, 847678, 847585, 847493, 847400, 847307, 847215,
  847122, 847029, 846936, 846844, 846751, 846658, 846565, 846472, 846379, 846286, 846193, 846100, 846007, 845914, 845821,
  845728, 845635, 845542, 845448, 845355, 845262, 845169, 845075, 844982, 844889, 844795, 844702, 844608, 844515, 844421,
  844328, 844234, 844141, 844047, 843954, 843860, 843766, 843673, 843579, 843485, 843391, 843298, 843204, 843110, 843016,
  842922, 842828, 842734, 842640, 842546, 842452, 842358, 842264, 842170, 842076, 841982, 841888, 841794, 841699, 841605,
  841511, 841416, 841322, 841228, 841133, 841039, 840945, 840850, 840756, 840661, 840567, 840472, 840377, 840283, 840188,
  840094, 839999, 839904, 839809, 839715, 839620, 839525, 839430, 839335, 839240, 839146, 839051, 838956, 838861, 838766,
  838671, 838575, 838480, 838385, 838290, 838195, 838100, 838005, 837909, 837814, 837719, 837623, 837528, 837433, 837337,
  837242, 837146, 837051, 836955, 836860, 836764, 836669, 836573, 836477, 836382, 836286, 836190, 836095, 835999, 835903,
  835807, 835712, 835616, 835520, 835424, 835328, 835232, 835136, 835040, 834944, 834848, 834752, 834656, 834560, 834463,
  834367, 834271, 834175, 834078, 833982, 833886, 833789, 833693, 833597, 833500, 833404, 833307, 833211, 833114, 833018,
  832921, 832825, 832728, 832631, 832535, 832438, 832341, 832245, 832148, 832051, 831954, 831857, 831760, 831663, 831567,
  831470, 831373, 831276, 831179, 831082, 830984, 830887, 830790, 830693, 830596, 830499, 830401, 830304, 830207, 830110,
  830012, 829915, 829818, 829720, 829623, 829525, 829428, 829330, 829233, 829135, 829038, 828940, 828842, 828745, 828647,
  828549, 828452, 828354, 828256, 828158, 828060, 827962, 827865, 827767, 827669, 827571, 827473, 827375, 827277, 827179,
  827081, 826982, 826884, 826786, 826688, 826590, 826492, 826393, 826295, 826197, 826098, 826000, 825902, 825803, 825705,
  825606, 825508, 825409, 825311, 825212, 825113, 825015, 824916, 824818, 824719, 824620, 824521, 824423, 824324, 824225,
  824126, 824027, 823928, 823830, 823731, 823632, 823533, 823434, 823335, 823235, 823136, 823037, 822938, 822839, 822740,
  822641, 822541, 822442, 822343, 822243, 822144, 822045, 821945, 821846, 821746, 821647, 821547, 821448, 821348, 821249,
  821149, 821050, 820950, 820850, 820751, 820651, 820551, 820451, 820352, 820252, 820152, 820052, 819952, 819852, 819752,
  819652, 819552, 819452, 819352, 819252, 819152, 819052, 818952, 818852, 818751, 818651, 818551, 818451, 818350, 818250,
  818150, 818049, 817949, 817849, 817748, 817648, 817547, 817447, 817346, 817245, 817145, 817044, 816944, 816843, 816742,
  816642, 816541, 816440, 816339, 816238, 816138, 816037, 815936, 815835, 815734, 815633, 815532, 815431, 815330, 815229,
  815128, 815027, 814926, 814824, 814723, 814622, 814521, 814419, 814318, 814217, 814116, 814014, 813913, 813811, 813710,
  813608, 813507, 813405, 813304, 813202, 813101, 812999, 812898, 812796, 812694, 812592, 812491, 812389, 812287, 812185,
  812084, 811982, 811880, 811778, 811676, 811574, 811472, 811370, 811268, 811166, 811064, 810962, 810860, 810757, 810655,
  810553, 810451, 810349, 810246, 810144, 810042, 809939, 809837, 809735, 809632, 809530, 809427, 809325, 809222, 809120,
  809017, 808914, 808812, 808709, 808606, 808504, 808401, 808298, 808196, 808093, 807990, 807887, 807784, 807681, 807578,
  807475, 807372, 807269, 807166, 807063, 806960, 806857, 806754, 806651, 806548, 806445, 806341, 806238, 806135, 806032,
  805928, 805825, 805722, 805618, 805515, 805411, 805308, 805204, 805101, 804997, 804894, 804790, 804687, 804583, 804479,
  804376, 804272, 804168, 804064, 803961, 803857, 803753, 803649, 803545, 803441, 803337, 803234, 803130, 803026, 802922,
  802817, 802713, 802609, 802505, 802401, 802297, 802193, 802088, 801984, 801880, 801776, 801671, 801567, 801463, 801358,
  801254, 801149, 801045, 800940, 800836, 800731, 800627, 800522, 800418, 800313, 800208, 800104, 799999, 799894, 799789,
  799685, 799580, 799475, 799370, 799265, 799160, 799055, 798951, 798846, 798741, 798636, 798530, 798425, 798320, 798215,
  798110, 798005, 797900, 797794, 797689, 797584, 797479, 797373, 797268, 797163, 797057, 796952, 796846, 796741, 796635,
  796530, 796424, 796319, 796213, 796108, 796002, 795896, 795791, 795685, 795579, 795473, 795368, 795262, 795156, 795050,
  794944, 794838, 794733, 794627, 794521, 794415, 794309, 794203, 794096, 793990, 793884, 793778, 793672, 793566, 793460,
  793353, 793247, 793141, 793034, 792928, 792822, 792715, 792609, 792503, 792396, 792290, 792183, 792077, 791970, 791863,
  791757, 791650, 791544, 791437, 791330, 791224, 791117, 791010, 790903, 790796, 790690, 790583, 790476, 790369, 790262,
  790155, 790048, 789941, 789834, 789727, 789620, 789513, 789406, 789298, 789191, 789084, 788977, 788870, 788762, 788655,
  788548, 788440, 788333, 788226, 788118, 788011, 787903, 787796, 787688, 787581, 787473, 787366, 787258, 787150, 787043,
  786935, 786827, 786720, 786612, 786504, 786396, 786288, 786181, 786073, 785965, 785857, 785749, 785641, 785533, 785425,
  785317, 785209, 785101, 784993, 784885, 784776, 784668, 784560, 784452, 784343, 784235, 784127, 784019, 783910, 783802,
  783693, 783585, 783477, 783368, 783260, 783151, 783043, 782934, 782825, 782717, 782608, 782499, 782391, 782282, 782173,
  782065, 781956, 781847, 781738, 781629, 781520, 781412, 781303, 781194, 781085, 780976, 780867, 780758, 780649, 780540,
  780430, 780321, 780212, 780103, 779994, 779884, 779775, 779666, 779557, 779447, 779338, 779229, 779119, 779010, 778900,
  778791, 778681, 778572, 778462, 778353, 778243, 778134, 778024, 777914, 777805, 777695, 777585, 777475, 777366, 777256,
  777146, 777036, 776926, 776816, 776706, 776596, 776487, 776377, 776267, 776156, 776046, 775936, 775826, 775716, 775606,
  775496, 775386, 775275, 775165, 775055, 774944, 774834, 774724, 774613, 774503, 774393, 774282, 774172, 774061, 773951,
  773840, 773730, 773619, 773508, 773398, 773287, 773177, 773066, 772955, 772844, 772734, 772623, 772512, 772401, 772290,
  772179, 772068, 771958, 771847, 771736, 771625, 771514, 771403, 771291, 771180, 771069, 770958, 770847, 770736, 770624,
  770513, 770402, 770291, 770179, 770068, 769957, 769845, 769734, 769622, 769511, 769400, 769288, 769177, 769065, 768953,
  768842, 768730, 768619, 768507, 768395, 768284, 768172, 768060, 767948, 767836, 767725, 767613, 767501, 767389, 767277,
  767165, 767053, 766941, 766829, 766717, 766605, 766493, 766381, 766269, 766157, 766044, 765932, 765820, 765708, 765596,
  765483, 765371, 765259, 765146, 765034, 764921, 764809, 764697, 764584, 764472, 764359, 764246, 764134, 764021, 763909,
  763796, 763683, 763571, 763458, 763345, 763232, 763120, 763007, 762894, 762781, 762668, 762555, 762443, 762330, 762217,
  762104, 761991, 761878, 761764, 761651, 761538, 761425, 761312, 761199, 761086, 760972, 760859, 760746, 760633, 760519,
  760406, 760293, 760179, 760066, 759952, 759839, 759725, 759612, 759498, 759385, 759271, 759158, 759044, 758930, 758817,
  758703, 758589, 758476, 758362, 758248, 758134, 758021, 757907, 757793, 757679, 757565, 757451, 757337, 757223, 757109,
  756995, 756881, 756767, 756653, 756539, 756425, 756310, 756196, 756082, 755968, 755853, 755739, 755625, 755511, 755396,
  755282, 755167, 755053, 754939, 754824, 754710, 754595, 754481, 754366, 754251, 754137, 754022, 753907, 753793, 753678,
  753563, 753449, 753334, 753219, 753104, 752989, 752875, 752760, 752645, 752530, 752415, 752300, 752185, 752070, 751955,
  751840, 751725, 751610, 751494, 751379, 751264, 751149, 751034, 750918, 750803, 750688, 750573, 750457, 750342, 750226,
  750111, 749996, 749880, 749765, 749649, 749534, 749418, 749303, 749187, 749071, 748956, 748840, 748724, 748609, 748493,
  748377, 748261, 748146, 748030, 747914, 747798, 747682, 747566, 747450, 747334, 747218, 747102, 746986, 746870, 746754,
  746638, 746522, 746406, 746290, 746174, 746057, 745941, 745825, 745709, 745592, 745476, 745360, 745243, 745127, 745010,
  744894, 744778, 744661, 744545, 744428, 744312, 744195, 744078, 743962, 743845, 743728, 743612, 743495, 743378, 743262,
  743145, 743028, 742911, 742794, 742678, 742561, 742444, 742327, 742210, 742093, 741976, 741859, 741742, 741625, 741508,
  741391, 741273, 741156, 741039, 740922, 740805, 740687, 740570, 740453, 740335, 740218, 740101, 739983, 739866, 739749,
  739631, 739514, 739396, 739279, 739161, 739043, 738926, 738808, 738691, 738573, 738455, 738338, 738220, 738102, 737984,
  737867, 737749, 737631, 737513, 737395, 737277, 737159, 737041, 736923, 736806, 736687, 736569, 736451, 736333, 736215,
  736097, 735979, 735861, 735743, 735624, 735506, 735388, 735270, 735151, 735033, 734915, 734796, 734678, 734559, 734441,
  734323, 734204, 734086, 733967, 733848, 733730, 733611, 733493, 733374, 733255, 733137, 733018, 732899, 732780, 732662,
  732543, 732424, 732305, 732186, 732067, 731949, 731830, 731711, 731592, 731473, 731354, 731235, 731116, 730997, 730877,
  730758, 730639, 730520, 730401, 730282, 730162, 730043, 729924, 729804, 729685, 729566, 729446, 729327, 729208, 729088,
  728969, 728849, 728730, 728610, 728491, 728371, 728251, 728132, 728012, 727892, 727773, 727653, 727533, 727414, 727294,
  727174, 727054, 726934, 726814, 726695, 726575, 726455, 726335, 726215, 726095, 725975, 725855, 725735, 725615, 725495,
  725374, 725254, 725134, 725014, 724894, 724773, 724653, 724533, 724413, 724292, 724172, 724051, 723931, 723811, 723690,
  723570, 723449, 723329, 723208, 723088, 722967, 722847, 722726, 722605, 722485, 722364, 722243, 722123, 722002, 721881,
  721760, 721639, 721519, 721398, 721277, 721156, 721035, 720914, 720793, 720672, 720551, 720430, 720309, 720188, 720067,
  719946, 719825, 719703, 719582, 719461, 719340, 719219, 719097, 718976, 718855, 718733, 718612, 718491, 718369, 718248,
  718126, 718005, 717883, 717762, 717640, 717519, 717397, 717276, 717154, 717032, 716911, 716789, 716667, 716545, 716424,
  716302, 716180, 716058, 715936, 715815, 715693, 715571, 715449, 715327, 715205, 715083, 714961, 714839, 714717, 714595,
  714473, 714351, 714228, 714106, 713984, 713862, 713740, 713617, 713495, 713373, 713250, 713128, 713006, 712883, 712761,
  712639, 712516, 712394, 712271, 712149, 712026, 711903, 711781, 711658, 711536, 711413, 711290, 711168, 711045, 710922,
  710799, 710677, 710554, 710431, 710308, 710185, 710062, 709940, 709817, 709694, 709571, 709448, 709325, 709202, 709079,
  708956, 708832, 708709, 708586, 708463, 708340, 708217, 708093, 707970, 707847, 707724, 707600, 707477, 707354, 707230,
  707107, 706983, 706860, 706736, 706613, 706489, 706366, 706242, 706119, 705995, 705872, 705748, 705624, 705501, 705377,
  705253, 705129, 705006, 704882, 704758, 704634, 704510, 704386, 704263, 704139, 704015, 703891, 703767, 703643, 703519,
  703395, 703271, 703147, 703022, 702898, 702774, 702650, 702526, 702402, 702277, 702153, 702029, 701904, 701780, 701656,
  701531, 701407, 701283, 701158, 701034, 700909, 700785, 700660, 700536, 700411, 700287, 700162, 700037, 699913, 699788,
  699663, 699539, 699414, 699289, 699164, 699040, 698915, 698790, 698665, 698540, 698415, 698290, 698165, 698040, 697915,
  697790, 697665, 697540, 697415, 697290, 697165, 697040, 696915, 696790, 696664, 696539, 696414, 696289, 696163, 696038,
  695913, 695787, 695662, 695537, 695411, 695286, 695160, 695035, 694909, 694784, 694658, 694533, 694407, 694282, 694156,
  694030, 693905, 693779, 693653, 693528, 693402, 693276, 693150, 693024, 692899, 692773, 692647, 692521, 692395, 692269,
  692143, 692017, 691891, 691765, 691639, 691513, 691387, 691261, 691135, 691009, 690882, 690756, 690630, 690504, 690378,
  690251, 690125, 689999, 689872, 689746, 689620, 689493, 689367, 689240, 689114, 688987, 688861, 688734, 688608, 688481,
  688355, 688228, 688101, 687975, 687848, 687721, 687595, 687468, 687341, 687214, 687088, 686961, 686834, 686707, 686580,
  686453, 686326, 686199, 686072, 685945, 685818, 685691, 685564, 685437, 685310, 685183, 685056, 684929, 684802, 684674,
  684547, 684420, 684293, 684165, 684038, 683911, 683783, 683656, 683529, 683401, 683274, 683146, 683019, 682891, 682764,
  682636, 682509, 682381, 682254, 682126, 681998, 681871, 681743, 681615, 681488, 681360, 681232, 681104, 680977, 680849,
  680721, 680593, 680465, 680337, 680209, 680081, 679953, 679825, 679697, 679569, 679441, 679313, 679185, 679057, 678929,
  678801, 678673, 678544, 678416, 678288, 678160, 678031, 677903, 677775, 677646, 677518, 677390, 677261, 677133, 677004,
  676876, 676747, 676619, 676490, 676362, 676233, 676105, 675976, 675848, 675719, 675590, 675462, 675333, 675204, 675075,
  674947, 674818, 674689, 674560, 674431, 674302, 674173, 674045, 673916, 673787, 673658, 673529, 673400, 673271, 673142,
  673013, 672883, 672754, 672625, 672496, 672367, 672238, 672108, 671979, 671850, 671721, 671591, 671462, 671333, 671203,
  671074, 670944, 670815, 670686, 670556, 670427, 670297, 670168, 670038, 669908, 669779, 669649, 669520, 669390, 669260,
  669131, 669001, 668871, 668741, 668612, 668482, 668352, 668222, 668092, 667962, 667833, 667703, 667573, 667443, 667313,
  667183, 667053, 666923, 666793, 666663, 666532, 666402, 666272, 666142, 666012, 665882, 665751, 665621, 665491, 665361,
  665230, 665100, 664970, 664839, 664709, 664579, 664448, 664318, 664187, 664057, 663926, 663796, 663665, 663535, 663404,
  663273, 663143, 663012, 662881, 662751, 662620, 662489, 662359, 662228, 662097, 661966, 661835, 661705, 661574, 661443,
  661312, 661181, 661050, 660919, 660788, 660657, 660526, 660395, 660264, 660133, 660002, 659871, 659739, 659608, 659477,
  659346, 659215, 659083, 658952, 658821, 658689, 658558, 658427, 658295, 658164, 658033, 657901, 657770, 657638, 657507,
  657375, 657244, 657112, 656981, 656849, 656717, 656586, 656454, 656322, 656191, 656059, 655927, 655796, 655664, 655532,
  655400, 655268, 655136, 655005, 654873, 654741, 654609, 654477, 654345, 654213, 654081, 653949, 653817, 653685, 653553,
  653421, 653288, 653156, 653024, 652892, 652760, 652628, 652495, 652363, 652231, 652098, 651966, 651834, 651701, 651569,
  651437, 651304, 651172, 651039, 650907, 650774, 650642, 650509, 650377, 650244, 650111, 649979, 649846, 649713, 649581,
  649448, 649315, 649183, 649050, 648917, 648784, 648651, 648519, 648386, 648253, 648120, 647987, 647854, 647721, 647588,
  647455, 647322, 647189, 647056, 646923, 646790, 646657, 646524, 646390, 646257, 646124, 645991, 645858, 645724, 645591,
  645458, 645324, 645191, 645058, 644924, 644791, 644657, 644524, 644391, 644257, 644124, 643990, 643857, 643723, 643589,
  643456, 643322, 643189, 643055, 642921, 642788, 642654, 642520, 642386, 642253, 642119, 641985, 641851, 641717, 641584,
  641450, 641316, 641182, 641048, 640914, 640780, 640646, 640512, 640378, 640244, 640110, 639976, 639841, 639707, 639573,
  639439, 639305, 639171, 639036, 638902, 638768, 638634, 638499, 638365, 638231, 638096, 637962, 637827, 637693, 637558,
  637424, 637290, 637155, 637020, 636886, 636751, 636617, 636482, 636348, 636213, 636078, 635944, 635809, 635674, 635539,
  635405, 635270, 635135, 635000, 634865, 634731, 634596, 634461, 634326, 634191, 634056, 633921, 633786, 633651, 633516,
  633381, 633246, 633111, 632976, 632840, 632705, 632570, 632435, 632300, 632165, 632029, 631894, 631759, 631623, 631488,
  631353, 631217, 631082, 630947, 630811, 630676, 630540, 630405, 630269, 630134, 629998, 629863, 629727, 629592, 629456,
  629320, 629185, 629049, 628913, 628778, 628642, 628506, 628370, 628235, 628099, 627963, 627827, 627691, 627555, 627420,
  627284, 627148, 627012, 626876, 626740, 626604, 626468, 626332, 626196, 626060, 625923, 625787, 625651, 625515, 625379,
  625243, 625106, 624970, 624834, 624698, 624561, 624425, 624289, 624152, 624016, 623880, 623743, 623607, 623470, 623334,
  623197, 623061, 622924, 622788, 622651, 622515, 622378, 622241, 622105, 621968, 621831, 621695, 621558, 621421, 621285,
  621148, 621011, 620874, 620737, 620601, 620464, 620327, 620190, 620053, 619916, 619779, 619642, 619505, 619368, 619231,
  619094, 618957, 618820, 618683, 618546, 618408, 618271, 618134, 617997, 617860, 617722, 617585, 617448, 617311, 617173,
  617036, 616899, 616761, 616624, 616486, 616349, 616211, 616074, 615937, 615799, 615661, 615524, 615386, 615249, 615111,
  614974, 614836, 614698, 614561, 614423, 614285, 614147, 614010, 613872, 613734, 613596, 613459, 613321, 613183, 613045,
  612907, 612769, 612631, 612493, 612355, 612217, 612079, 611941, 611803, 611665, 611527, 611389, 611251, 611113, 610975,
  610836, 610698, 610560, 610422, 610283, 610145, 610007, 609869, 609730, 609592, 609454, 609315, 609177, 609038, 608900,
  608761, 608623, 608484, 608346, 608207, 608069, 607930, 607792, 607653, 607514, 607376, 607237, 607098, 606960, 606821,
  606682, 606544, 606405, 606266, 606127, 605988, 605850, 605711, 605572, 605433, 605294, 605155, 605016, 604877, 604738,
  604599, 604460, 604321, 604182, 604043, 603904, 603765, 603626, 603486, 603347, 603208, 603069, 602930, 602790, 602651,
  602512, 602372, 602233, 602094, 601954, 601815, 601676, 601536, 601397, 601257, 601118, 600978, 600839, 600699, 600560,
  600420, 600281, 600141, 600001, 599862, 599722, 599582, 599443, 599303, 599163, 599024, 598884, 598744, 598604, 598464,
  598325, 598185, 598045, 597905, 597765, 597625, 597485, 597345, 597205, 597065, 596925, 596785, 596645, 596505, 596365,
  596225, 596085, 595945, 595804, 595664, 595524, 595384, 595244, 595103, 594963, 594823, 594682, 594542, 594402, 594261,
  594121, 593981, 593840, 593700, 593559, 593419, 593278, 593138, 592997, 592857, 592716, 592576, 592435, 592294, 592154,
  592013, 591873, 591732, 591591, 591450, 591310, 591169, 591028, 590887, 590746, 590606, 590465, 590324, 590183, 590042,
  589901, 589760, 589619, 589478, 589337, 589196, 589055, 588914, 588773, 588632, 588491, 588350, 588209, 588068, 587926,
  587785, 587644, 587503, 587362, 587220, 587079, 586938, 586796, 586655, 586514, 586372, 586231, 586090, 585948, 585807,
  585665, 585524, 585382, 585241, 585099, 584958, 584816, 584675, 584533, 584391, 584250, 584108, 583966, 583825, 583683,
  583541, 583399, 583258, 583116, 582974, 582832, 582690, 582549, 582407, 582265, 582123, 581981, 581839, 581697, 581555,
  581413, 581271, 581129, 580987, 580845, 580703, 580561, 580419, 580277, 580134, 579992, 579850, 579708, 579566, 579423,
  579281, 579139, 578997, 578854, 578712, 578570, 578427, 578285, 578142, 578000, 577858, 577715, 577573, 577430, 577288,
  577145, 577003, 576860, 576718, 576575, 576432, 576290, 576147, 576004, 575862, 575719, 575576, 575434, 575291, 575148,
  575005, 574862, 574720, 574577, 574434, 574291, 574148, 574005, 573862, 573719, 573576, 573433, 573290, 573147, 573004,
  572861, 572718, 572575, 572432, 572289, 572146, 572003, 571860, 571716, 571573, 571430, 571287, 571143, 571000, 570857,
  570714, 570570, 570427, 570284, 570140, 569997, 569853, 569710, 569566, 569423, 569280, 569136, 568993, 568849, 568705,
  568562, 568418, 568275, 568131, 567987, 567844, 567700, 567556, 567413, 567269, 567125, 566981, 566838, 566694, 566550,
  566406, 566262, 566119, 565975, 565831, 565687, 565543, 565399, 565255, 565111, 564967, 564823, 564679, 564535, 564391,
  564247, 564103, 563959, 563814, 563670, 563526, 563382, 563238, 563093, 562949, 562805, 562661, 562516, 562372, 562228,
  562083, 561939, 561795, 561650, 561506, 561361, 561217, 561072, 560928, 560784, 560639, 560494, 560350, 560205, 560061,
  559916, 559772, 559627, 559482, 559338, 559193, 559048, 558903, 558759, 558614, 558469, 558324, 558180, 558035, 557890,
  557745, 557600, 557455, 557310, 557166, 557021, 556876, 556731, 556586, 556441, 556296, 556151, 556006, 555860, 555715,
  555570, 555425, 555280, 555135, 554990, 554844, 554699, 554554, 554409, 554263, 554118, 553973, 553828, 553682, 553537,
  553392, 553246, 553101, 552955, 552810, 552664, 552519, 552374, 552228, 552083, 551937, 551791, 551646, 551500, 551355,
  551209, 551063, 550918, 550772, 550626, 550481, 550335, 550189, 550044, 549898, 549752, 549606, 549460, 549315, 549169,
  549023, 548877, 548731, 548585, 548439, 548293, 548147, 548001, 547855, 547709, 547563, 547417, 547271, 547125, 546979,
  546833, 546687, 546541, 546394, 546248, 546102, 545956, 545810, 545663, 545517, 545371, 545224, 545078, 544932, 544785,
  544639, 544493, 544346, 544200, 544053, 543907, 543760, 543614, 543467, 543321, 543174, 543028, 542881, 542735, 542588,
  542442, 542295, 542148, 542002, 541855, 541708, 541561, 541415, 541268, 541121, 540974, 540828, 540681, 540534, 540387,
  540240, 540093, 539947, 539800, 539653, 539506, 539359, 539212, 539065, 538918, 538771, 538624, 538477, 538330, 538183,
  538035, 537888, 537741, 537594, 537447, 537300, 537152, 537005, 536858, 536711, 536563, 536416, 536269, 536121, 535974,
  535827, 535679, 535532, 535385, 535237, 535090, 534942, 534795, 534647, 534500, 534352, 534205, 534057, 533910, 533762,
  533615, 533467, 533319, 533172, 533024, 532876, 532729, 532581, 532433, 532285, 532138, 531990, 531842, 531694, 531546,
  531399, 531251, 531103, 530955, 530807, 530659, 530511, 530363, 530215, 530067, 529919, 529771, 529623, 529475, 529327,
  529179, 529031, 528883, 528735, 528587, 528438, 528290, 528142, 527994, 527846, 527697, 527549, 527401, 527252, 527104,
  526956, 526807, 526659, 526511, 526362, 526214, 526066, 525917, 525769, 525620, 525472, 525323, 525175, 525026, 524878,
  524729, 524580, 524432, 524283, 524135, 523986, 523837, 523689, 523540, 523391, 523242, 523094, 522945, 522796, 522647,
  522499, 522350, 522201, 522052, 521903, 521754, 521605, 521456, 521308, 521159, 521010, 520861, 520712, 520563, 520414,
  520265, 520116, 519966, 519817, 519668, 519519, 519370, 519221, 519072, 518922, 518773, 518624, 518475, 518326, 518176,
  518027, 517878, 517728, 517579, 517430, 517280, 517131, 516982, 516832, 516683, 516533, 516384, 516234, 516085, 515935,
  515786, 515636, 515487, 515337, 515188, 515038, 514888, 514739, 514589, 514440, 514290, 514140, 513990, 513841, 513691,
  513541, 513391, 513242, 513092, 512942, 512792, 512642, 512493, 512343, 512193, 512043, 511893, 511743, 511593, 511443,
  511293, 511143, 510993, 510843, 510693, 510543, 510393, 510243, 510093, 509943, 509792, 509642, 509492, 509342, 509192,
  509041, 508891, 508741, 508591, 508440, 508290, 508140, 507989, 507839, 507689, 507538, 507388, 507238, 507087, 506937,
  506786, 506636, 506485, 506335, 506184, 506034, 505883, 505733, 505582, 505431, 505281, 505130, 504980, 504829, 504678,
  504528, 504377, 504226, 504075, 503925, 503774, 503623, 503472, 503322, 503171, 503020, 502869, 502718, 502567, 502416,
  502266, 502115, 501964, 501813, 501662, 501511, 501360, 501209, 501058, 500907, 500756, 500604, 500453, 500302, 500151,
  500000, 499849, 499698, 499546, 499395, 499244, 499093, 498942, 498790, 498639, 498488, 498336, 498185, 498034, 497882,
  497731, 497580, 497428, 497277, 497125, 496974, 496822, 496671, 496520, 496368, 496217, 496065, 495913, 495762, 495610,
  495459, 495307, 495155, 495004, 494852, 494700, 494549, 494397, 494245, 494094, 493942, 493790, 493638, 493487, 493335,
  493183, 493031, 492879, 492727, 492575, 492424, 492272, 492120, 491968, 491816, 491664, 491512, 491360, 491208, 491056,
  490904, 490752, 490600, 490448, 490295, 490143, 489991, 489839, 489687, 489535, 489382, 489230, 489078, 488926, 488774,
  488621, 488469, 488317, 488164, 488012, 487860, 487707, 487555, 487403, 487250, 487098, 486945, 486793, 486640, 486488,
  486335, 486183, 486030, 485878, 485725, 485573, 485420, 485268, 485115, 484962, 484810, 484657, 484504, 484352, 484199,
  484046, 483893, 483741, 483588, 483435, 483282, 483130, 482977, 482824, 482671, 482518, 482365, 482212, 482060, 481907,
  481754, 481601, 481448, 481295, 481142, 480989, 480836, 480683, 480530, 480377, 480223, 480070, 479917, 479764, 479611,
  479458, 479305, 479152, 478998, 478845, 478692, 478539, 478385, 478232, 478079, 477925, 477772, 477619, 477465, 477312,
  477159, 477005, 476852, 476699, 476545, 476392, 476238, 476085, 475931, 475778, 475624, 475471, 475317, 475164, 475010,
  474856, 474703, 474549, 474396, 474242, 474088, 473935, 473781, 473627, 473473, 473320, 473166, 473012, 472858, 472705,
  472551, 472397, 472243, 472089, 471935, 471782, 471628, 471474, 471320, 471166, 471012, 470858, 470704, 470550, 470396,
  470242, 470088, 469934, 469780, 469626, 469472, 469317, 469163, 469009, 468855, 468701, 468547, 468392, 468238, 468084,
  467930, 467776, 467621, 467467, 467313, 467158, 467004, 466850, 466695, 466541, 466387, 466232, 466078, 465923, 465769,
  465615, 465460, 465306, 465151, 464997, 464842, 464688, 464533, 464378, 464224, 464069, 463915, 463760, 463605, 463451,
  463296, 463141, 462987, 462832, 462677, 462523, 462368, 462213, 462058, 461903, 461749, 461594, 461439, 461284, 461129,
  460974, 460819, 460665, 460510, 460355, 460200, 460045, 459890, 459735, 459580, 459425, 459270, 459115, 458960, 458805,
  458650, 458494, 458339, 458184, 458029, 457874, 457719, 457564, 457408, 457253, 457098, 456943, 456787, 456632, 456477,
  456322, 456166, 456011, 455856, 455700, 455545, 455390, 455234, 455079, 454923, 454768, 454612, 454457, 454301, 454146,
  453990, 453835, 453679, 453524, 453368, 453213, 453057, 452902, 452746, 452590, 452435, 452279, 452123, 451968, 451812,
  451656, 451501, 451345, 451189, 451033, 450878, 450722, 450566, 450410, 450254, 450098, 449943, 449787, 449631, 449475,
  449319, 449163, 449007, 448851, 448695, 448539, 448383, 448227, 448071, 447915, 447759, 447603, 447447, 447291, 447135,
  446979, 446822, 446666, 446510, 446354, 446198, 446042, 445885, 445729, 445573, 445417, 445260, 445104, 444948, 444792,
  444635, 444479, 444322, 444166, 444010, 443853, 443697, 443541, 443384, 443228, 443071, 442915, 442758, 442602, 442445,
  442289, 442132, 441976, 441819, 441662, 441506, 441349, 441193, 441036, 440879, 440723, 440566, 440409, 440253, 440096,
  439939, 439782, 439626, 439469, 439312, 439155, 438999, 438842, 438685, 438528, 438371, 438214, 438057, 437900, 437744,
  437587, 437430, 437273, 437116, 436959, 436802, 436645, 436488, 436331, 436174, 436017, 435860, 435702, 435545, 435388,
  435231, 435074, 434917, 434760, 434602, 434445, 434288, 434131, 433974, 433816, 433659, 433502, 433345, 433187, 433030,
  432873, 432715, 432558, 432401, 432243, 432086, 431928, 431771, 431613, 431456, 431299, 431141, 430984, 430826, 430669,
  430511, 430354, 430196, 430038, 429881, 429723, 429566, 429408, 429250, 429093, 428935, 428777, 428620, 428462, 428304,
  428147, 427989, 427831, 427673, 427516, 427358, 427200, 427042, 426884, 426727, 426569, 426411, 426253, 426095, 425937,
  425779, 425621, 425463, 425305, 425147, 424990, 424832, 424674, 424516, 424357, 424199, 424041, 423883, 423725, 423567,
  423409, 423251, 423093, 422935, 422776, 422618, 422460, 422302, 422144, 421985, 421827, 421669, 421511, 421352, 421194,
  421036, 420877, 420719, 420561, 420402, 420244, 420086, 419927, 419769, 419611, 419452, 419294, 419135, 418977, 418818,
  418660, 418501, 418343, 418184, 418026, 417867, 417709, 417550, 417391, 417233, 417074, 416915, 416757, 416598, 416439,
  416281, 416122, 415963, 415805, 415646, 415487, 415328, 415170, 415011, 414852, 414693, 414534, 414376, 414217, 414058,
  413899, 413740, 413581, 413422, 413263, 413104, 412945, 412787, 412628, 412469, 412310, 412151, 411992, 411832, 411673,
  411514, 411355, 411196, 411037, 410878, 410719, 410560, 410401, 410241, 410082, 409923, 409764, 409605, 409445, 409286,
  409127, 408968, 408808, 408649, 408490, 408330, 408171, 408012, 407852, 407693, 407534, 407374, 407215, 407056, 406896,
  406737, 406577, 406418, 406258, 406099, 405939, 405780, 405620, 405461, 405301, 405142, 404982, 404822, 404663, 404503,
  404344, 404184, 404024, 403865, 403705, 403545, 403386, 403226, 403066, 402906, 402747, 402587, 402427, 402267, 402108,
  401948, 401788, 401628, 401468, 401308, 401149, 400989, 400829, 400669, 400509, 400349, 400189, 400029, 399869, 399709,
  399549, 399389, 399229, 399069, 398909, 398749, 398589, 398429, 398269, 398109, 397949, 397789, 397628, 397468, 397308,
  397148, 396988, 396828, 396667, 396507, 396347, 396187, 396026, 395866, 395706, 395546, 395385, 395225, 395065, 394904,
  394744, 394583, 394423, 394263, 394102, 393942, 393781, 393621, 393461, 393300, 393140, 392979, 392819, 392658, 392498,
  392337, 392177, 392016, 391855, 391695, 391534, 391374, 391213, 391052, 390892, 390731, 390570, 390410, 390249, 390088,
  389928, 389767, 389606, 389445, 389285, 389124, 388963, 388802, 388642, 388481, 388320, 388159, 387998, 387837, 387676,
  387516, 387355, 387194, 387033, 386872, 386711, 386550, 386389, 386228, 386067, 385906, 385745, 385584, 385423, 385262,
  385101, 384940, 384779, 384618, 384456, 384295, 384134, 383973, 383812, 383651, 383490, 383328, 383167, 383006, 382845,
  382683, 382522, 382361, 382200, 382038, 381877, 381716, 381554, 381393, 381232, 381070, 380909, 380748, 380586, 380425,
  380263, 380102, 379941, 379779, 379618, 379456, 379295, 379133, 378972, 378810, 378649, 378487, 378326, 378164, 378002,
  377841, 377679, 377518, 377356, 377194, 377033, 376871, 376709, 376548, 376386, 376224, 376063, 375901, 375739, 375577,
  375416, 375254, 375092, 374930, 374768, 374607, 374445, 374283, 374121, 373959, 373797, 373635, 373474, 373312, 373150,
  372988, 372826, 372664, 372502, 372340, 372178, 372016, 371854, 371692, 371530, 371368, 371206, 371044, 370882, 370720,
  370557, 370395, 370233, 370071, 369909, 369747, 369585, 369422, 369260, 369098, 368936, 368774, 368611, 368449, 368287,
  368125, 367962, 367800, 367638, 367475, 367313, 367151, 366988, 366826, 366664, 366501, 366339, 366176, 366014, 365852,
  365689, 365527, 365364, 365202, 365039, 364877, 364714, 364552, 364389, 364227, 364064, 363902, 363739, 363576, 363414,
  363251, 363089, 362926, 362763, 362601, 362438, 362275, 362113, 361950, 361787, 361625, 361462, 361299, 361136, 360974,
  360811, 360648, 360485, 360322, 360160, 359997, 359834, 359671, 359508, 359345, 359183, 359020, 358857, 358694, 358531,
  358368, 358205, 358042, 357879, 357716, 357553, 357390, 357227, 357064, 356901, 356738, 356575, 356412, 356249, 356086,
  355923, 355760, 355596, 355433, 355270, 355107, 354944, 354781, 354617, 354454, 354291, 354128, 353965, 353801, 353638,
  353475, 353312, 353148, 352985, 352822, 352658, 352495, 352332, 352168, 352005, 351842, 351678, 351515, 351351, 351188,
  351025, 350861, 350698, 350534, 350371, 350207, 350044, 349880, 349717, 349553, 349390, 349226, 349063, 348899, 348736,
  348572, 348408, 348245, 348081, 347918, 347754, 347590, 347427, 347263, 347099, 346936, 346772, 346608, 346445, 346281,
  346117, 345953, 345790, 345626, 345462, 345298, 345134, 344971, 344807, 344643, 344479, 344315, 344151, 343987, 343824,
  343660, 343496, 343332, 343168, 343004, 342840, 342676, 342512, 342348, 342184, 342020, 341856, 341692, 341528, 341364,
  341200, 341036, 340872, 340708, 340544, 340380, 340215, 340051, 339887, 339723, 339559, 339395, 339231, 339066, 338902,
  338738, 338574, 338409, 338245, 338081, 337917, 337752, 337588, 337424, 337260, 337095, 336931, 336767, 336602, 336438,
  336274, 336109, 335945, 335780, 335616, 335452, 335287, 335123, 334958, 334794, 334629, 334465, 334300, 334136, 333971,
  333807, 333642, 333478, 333313, 333149, 332984, 332820, 332655, 332490, 332326, 332161, 331997, 331832, 331667, 331503,
  331338, 331173, 331009, 330844, 330679, 330514, 330350, 330185, 330020, 329855, 329691, 329526, 329361, 329196, 329031,
  328867, 328702, 328537, 328372, 328207, 328042, 327878, 327713, 327548, 327383, 327218, 327053, 326888, 326723, 326558,
  326393, 326228, 326063, 325898, 325733, 325568, 325403, 325238, 325073, 324908, 324743, 324578, 324413, 324248, 324083,
  323917, 323752, 323587, 323422, 323257, 323092, 322927, 322761, 322596, 322431, 322266, 322100, 321935, 321770, 321605,
  321439, 321274, 321109, 320944, 320778, 320613, 320448, 320282, 320117, 319952, 319786, 319621, 319456, 319290, 319125,
  318959, 318794, 318628, 318463, 318298, 318132, 317967, 317801, 317636, 317470, 317305, 317139, 316974, 316808, 316643,
  316477, 316311, 316146, 315980, 315815, 315649, 315483, 315318, 315152, 314987, 314821, 314655, 314490, 314324, 314158,
  313992, 313827, 313661, 313495, 313330, 313164, 312998, 312832, 312667, 312501, 312335, 312169, 312003, 311837, 311672,
  311506, 311340, 311174, 311008, 310842, 310676, 310511, 310345, 310179, 310013, 309847, 309681, 309515, 309349, 309183,
  309017, 308851, 308685, 308519, 308353, 308187, 308021, 307855, 307689, 307523, 307357, 307191, 307024, 306858, 306692,
  306526, 306360, 306194, 306028, 305861, 305695, 305529, 305363, 305197, 305031, 304864, 304698, 304532, 304366, 304199,
  304033, 303867, 303701, 303534, 303368, 303202, 303035, 302869, 302703, 302536, 302370, 302204, 302037, 301871, 301704,
  301538, 301372, 301205, 301039, 300872, 300706, 300539, 300373, 300206, 300040, 299873, 299707, 299540, 299374, 299207,
  299041, 298874, 298708, 298541, 298375, 298208, 298041, 297875, 297708, 297542, 297375, 297208, 297042, 296875, 296708,
  296542, 296375, 296208, 296041, 295875, 295708, 295541, 295375, 295208, 295041, 294874, 294708, 294541, 294374, 294207,
  294040, 293874, 293707, 293540, 293373, 293206, 293039, 292872, 292706, 292539, 292372, 292205, 292038, 291871, 291704,
  291537, 291370, 291203, 291036, 290869, 290702, 290535, 290368, 290201, 290034, 289867, 289700, 289533, 289366, 289199,
  289032, 288865, 288698, 288531, 288363, 288196, 288029, 287862, 287695, 287528, 287361, 287193, 287026, 286859, 286692,
  286525, 286357, 286190, 286023, 285856, 285688, 285521, 285354, 285187, 285019, 284852, 284685, 284517, 284350, 284183,
  284015, 283848, 283681, 283513, 283346, 283179, 283011, 282844, 282676, 282509, 282341, 282174, 282007, 281839, 281672,
  281504, 281337, 281169, 281002, 280834, 280667, 280499, 280332, 280164, 279997, 279829, 279661, 279494, 279326, 279159,
  278991, 278823, 278656, 278488, 278321, 278153, 277985, 277818, 277650, 277482, 277315, 277147, 276979, 276812, 276644,
  276476, 276308, 276141, 275973, 275805, 275637, 275470, 275302, 275134, 274966, 274798, 274631, 274463, 274295, 274127,
  273959, 273791, 273623, 273456, 273288, 273120, 272952, 272784, 272616, 272448, 272280, 272112, 271944, 271776, 271608,
  271440, 271272, 271104, 270936, 270768, 270600, 270432, 270264, 270096, 269928, 269760, 269592, 269424, 269256, 269088,
  268920, 268752, 268584, 268415, 268247, 268079, 267911, 267743, 267575, 267407, 267238, 267070, 266902, 266734, 266566,
  266397, 266229, 266061, 265893, 265724, 265556, 265388, 265220, 265051, 264883, 264715, 264546, 264378, 264210, 264041,
  263873, 263705, 263536, 263368, 263200, 263031, 262863, 262694, 262526, 262358, 262189, 262021, 261852, 261684, 261515,
  261347, 261178, 261010, 260842, 260673, 260505, 260336, 260167, 259999, 259830, 259662, 259493, 259325, 259156, 258988,
  258819, 258650, 258482, 258313, 258145, 257976, 257807, 257639, 257470, 257301, 257133, 256964, 256795, 256627, 256458,
  256289, 256121, 255952, 255783, 255614, 255446, 255277, 255108, 254939, 254771, 254602, 254433, 254264, 254096, 253927,
  253758, 253589, 253420, 253251, 253083, 252914, 252745, 252576, 252407, 252238, 252069, 251900, 251732, 251563, 251394,
  251225, 251056, 250887, 250718, 250549, 250380, 250211, 250042, 249873, 249704, 249535, 249366, 249197, 249028, 248859,
  248690, 248521, 248352, 248183, 248014, 247845, 247675, 247506, 247337, 247168, 246999, 246830, 246661, 246492, 246322,
  246153, 245984, 245815, 245646, 245477, 245307, 245138, 244969, 244800, 244631, 244461, 244292, 244123, 243954, 243784,
  243615, 243446, 243276, 243107, 242938, 242769, 242599, 242430, 242261, 242091, 241922, 241753, 241583, 241414, 241244,
  241075, 240906, 240736, 240567, 240397, 240228, 240059, 239889, 239720, 239550, 239381, 239211, 239042, 238872, 238703,
  238533, 238364, 238194, 238025, 237855, 237686, 237516, 237347, 237177, 237008, 236838, 236669, 236499, 236329, 236160,
  235990, 235821, 235651, 235481, 235312, 235142, 234972, 234803, 234633, 234463, 234294, 234124, 233954, 233785, 233615,
  233445, 233276, 233106, 232936, 232766, 232597, 232427, 232257, 232087, 231918, 231748, 231578, 231408, 231239, 231069,
  230899, 230729, 230559, 230389, 230220, 230050, 229880, 229710, 229540, 229370, 229200, 229031, 228861, 228691, 228521,
  228351, 228181, 228011, 227841, 227671, 227501, 227331, 227161, 226991, 226821, 226651, 226481, 226311, 226141, 225971,
  225801, 225631, 225461, 225291, 225121, 224951, 224781, 224611, 224441, 224271, 224101, 223931, 223760, 223590, 223420,
  223250, 223080, 222910, 222740, 222570, 222399, 222229, 222059, 221889, 221719, 221548, 221378, 221208, 221038, 220868,
  220697, 220527, 220357, 220187, 220016, 219846, 219676, 219506, 219335, 219165, 218995, 218825, 218654, 218484, 218314,
  218143, 217973, 217803, 217632, 217462, 217292, 217121, 216951, 216780, 216610, 216440, 216269, 216099, 215928, 215758,
  215588, 215417, 215247, 215076, 214906, 214735, 214565, 214394, 214224, 214053, 213883, 213712, 213542, 213371, 213201,
  213030, 212860, 212689, 212519, 212348, 212178, 212007, 211837, 211666, 211495, 211325, 211154, 210984, 210813, 210642,
  210472, 210301, 210131, 209960, 209789, 209619, 209448, 209277, 209107, 208936, 208765, 208595, 208424, 208253, 208082,
  207912, 207741, 207570, 207400, 207229, 207058, 206887, 206717, 206546, 206375, 206204, 206033, 205863, 205692, 205521,
  205350, 205179, 205009, 204838, 204667, 204496, 204325, 204154, 203983, 203813, 203642, 203471, 203300, 203129, 202958,
  202787, 202616, 202445, 202275, 202104, 201933, 201762, 201591, 201420, 201249, 201078, 200907, 200736, 200565, 200394,
  200223, 200052, 199881, 199710, 199539, 199368, 199197, 199026, 198855, 198684, 198513, 198342, 198171, 198000, 197828,
  197657, 197486, 197315, 197144, 196973, 196802, 196631, 196460, 196288, 196117, 195946, 195775, 195604, 195433, 195261,
  195090, 194919, 194748, 194577, 194406, 194234, 194063, 193892, 193721, 193549, 193378, 193207, 193036, 192864, 192693,
  192522, 192351, 192179, 192008, 191837, 191666, 191494, 191323, 191152, 190980, 190809, 190638, 190466, 190295, 190124,
  189952, 189781, 189610, 189438, 189267, 189095, 188924, 188753, 188581, 188410, 188238, 188067, 187896, 187724, 187553,
  187381, 187210, 187038, 186867, 186696, 186524, 186353, 186181, 186010, 185838, 185667, 185495, 185324, 185152, 184981,
  184809, 184638, 184466, 184294, 184123, 183951, 183780, 183608, 183437, 183265, 183094, 182922, 182750, 182579, 182407,
  182236, 182064, 181892, 181721, 181549, 181377, 181206, 181034, 180862, 180691, 180519, 180347, 180176, 180004, 179832,
  179661, 179489, 179317, 179146, 178974, 178802, 178630, 178459, 178287, 178115, 177944, 177772, 177600, 177428, 177257,
  177085, 176913, 176741, 176569, 176398, 176226, 176054, 175882, 175710, 175539, 175367, 175195, 175023, 174851, 174679,
  174508, 174336, 174164, 173992, 173820, 173648, 173476, 173304, 173133, 172961, 172789, 172617, 172445, 172273, 172101,
  171929, 171757, 171585, 171413, 171241, 171069, 170897, 170725, 170553, 170381, 170209, 170038, 169866, 169694, 169522,
  169350, 169177, 169005, 168833, 168661, 168489, 168317, 168145, 167973, 167801, 167629, 167457, 167285, 167113, 166941,
  166769, 166597, 166425, 166252, 166080, 165908, 165736, 165564, 165392, 165220, 165048, 164875, 164703, 164531, 164359,
  164187, 164015, 163843, 163670, 163498, 163326, 163154, 162982, 162809, 162637, 162465, 162293, 162121, 161948, 161776,
  161604, 161432, 161259, 161087, 160915, 160743, 160570, 160398, 160226, 160053, 159881, 159709, 159537, 159364, 159192,
  159020, 158847, 158675, 158503, 158330, 158158, 157986, 157813, 157641, 157469, 157296, 157124, 156952, 156779, 156607,
  156434, 156262, 156090, 155917, 155745, 155572, 155400, 155228, 155055, 154883, 154710, 154538, 154366, 154193, 154021,
  153848, 153676, 153503, 153331, 153158, 152986, 152813, 152641, 152468, 152296, 152123, 151951, 151778, 151606, 151433,
  151261, 151088, 150916, 150743, 150571, 150398, 150226, 150053, 149880, 149708, 149535, 149363, 149190, 149018, 148845,
  148672, 148500, 148327, 148155, 147982, 147809, 147637, 147464, 147292, 147119, 146946, 146774, 146601, 146428, 146256,
  146083, 145910, 145738, 145565, 145392, 145220, 145047, 144874, 144702, 144529, 144356, 144183, 144011, 143838, 143665,
  143493, 143320, 143147, 142974, 142802, 142629, 142456, 142283, 142111, 141938, 141765, 141592, 141420, 141247, 141074,
  140901, 140728, 140556, 140383, 140210, 140037, 139864, 139692, 139519, 139346, 139173, 139000, 138827, 138655, 138482,
  138309, 138136, 137963, 137790, 137617, 137445, 137272, 137099, 136926, 136753, 136580, 136407, 136234, 136061, 135888,
  135716, 135543, 135370, 135197, 135024, 134851, 134678, 134505, 134332, 134159, 133986, 133813, 133640, 133467, 133294,
  133121, 132948, 132775, 132602, 132429, 132256, 132083, 131910, 131737, 131564, 131391, 131218, 131045, 130872, 130699,
  130526, 130353, 130180, 130007, 129834, 129661, 129488, 129315, 129142, 128969, 128796, 128623, 128449, 128276, 128103,
  127930, 127757, 127584, 127411, 127238, 127065, 126891, 126718, 126545, 126372, 126199, 126026, 125853, 125680, 125506,
  125333, 125160, 124987, 124814, 124641, 124467, 124294, 124121, 123948, 123775, 123601, 123428, 123255, 123082, 122909,
  122735, 122562, 122389, 122216, 122043, 121869, 121696, 121523, 121350, 121176, 121003, 120830, 120657, 120483, 120310,
  120137, 119964, 119790, 119617, 119444, 119270, 119097, 118924, 118751, 118577, 118404, 118231, 118057, 117884, 117711,
  117537, 117364, 117191, 117017, 116844, 116671, 116497, 116324, 116151, 115977, 115804, 115631, 115457, 115284, 115111,
  114937, 114764, 114590, 114417, 114244, 114070, 113897, 113723, 113550, 113377, 113203, 113030, 112856, 112683, 112510,
  112336, 112163, 111989, 111816, 111642, 111469, 111295, 111122, 110949, 110775, 110602, 110428, 110255, 110081, 109908,
  109734, 109561, 109387, 109214, 109040, 108867, 108693, 108520, 108346, 108173, 107999, 107826, 107652, 107479, 107305,
  107132, 106958, 106785, 106611, 106438, 106264, 106091, 105917, 105743, 105570, 105396, 105223, 105049, 104876, 104702,
  104528, 104355, 104181, 104008, 103834, 103661, 103487, 103313, 103140, 102966, 102793, 102619, 102445, 102272, 102098,
  101924, 101751, 101577, 101404, 101230, 101056, 100883, 100709, 100535, 100362, 100188, 100014, 99841, 99667, 99493,
  99320, 99146, 98972, 98799, 98625, 98451, 98278, 98104, 97930, 97757, 97583, 97409, 97235, 97062, 96888,
  96714, 96541, 96367, 96193, 96019, 95846, 95672, 95498, 95325, 95151, 94977, 94803, 94630, 94456, 94282,
  94108, 93935, 93761, 93587, 93413, 93239, 93066, 92892, 92718, 92544, 92371, 92197, 92023, 91849, 91675,
  91502, 91328, 91154, 90980, 90806, 90633, 90459, 90285, 90111, 89937, 89763, 89590, 89416, 89242, 89068,
  88894, 88720, 88547, 88373, 88199, 88025, 87851, 87677, 87503, 87330, 87156, 86982, 86808, 86634, 86460,
  86286, 86112, 85939, 85765, 85591, 85417, 85243, 85069, 84895, 84721, 84547, 84374, 84200, 84026, 83852,
  83678, 83504, 83330, 83156, 82982, 82808, 82634, 82460, 82286, 82112, 81939, 81765, 81591, 81417, 81243,
  81069, 80895, 80721, 80547, 80373, 80199, 80025, 79851, 79677, 79503, 79329, 79155, 78981, 78807, 78633,
  78459, 78285, 78111, 77937, 77763, 77589, 77415, 77241, 77067, 76893, 76719, 76545, 76371, 76197, 76023,
  75849, 75675, 75501, 75327, 75153, 74979, 74805, 74631, 74457, 74283, 74108, 73934, 73760, 73586, 73412,
  73238, 73064, 72890, 72716, 72542, 72368, 72194, 72020, 71846, 71672, 71497, 71323, 71149, 70975, 70801,
  70627, 70453, 70279, 70105, 69931, 69756, 69582, 69408, 69234, 69060, 68886, 68712, 68538, 68364, 68189,
  68015, 67841, 67667, 67493, 67319, 67145, 66970, 66796, 66622, 66448, 66274, 66100, 65926, 65751, 65577,
  65403, 65229, 65055, 64881, 64706, 64532, 64358, 64184, 64010, 63836, 63661, 63487, 63313, 63139, 62965,
  62791, 62616, 62442, 62268, 62094, 61920, 61745, 61571, 61397, 61223, 61049, 60874, 60700, 60526, 60352,
  60177, 60003, 59829, 59655, 59481, 59306, 59132, 58958, 58784, 58609, 58435, 58261, 58087, 57913, 57738,
  57564, 57390, 57216, 57041, 56867, 56693, 56519, 56344, 56170, 55996, 55822, 55647, 55473, 55299, 55124,
  54950, 54776, 54602, 54427, 54253, 54079, 53905, 53730, 53556, 53382, 53207, 53033, 52859, 52685, 52510,
  52336, 52162, 51987, 51813, 51639, 51464, 51290, 51116, 50942, 50767, 50593, 50419, 50244, 50070, 49896,
  49721, 49547, 49373, 49198, 49024, 48850, 48675, 48501, 48327, 48152, 47978, 47804, 47629, 47455, 47281,
  47106, 46932, 46758, 46583, 46409, 46235, 46060, 45886, 45712, 45537, 45363, 45189, 45014, 44840, 44666,
  44491, 44317, 44142, 43968, 43794, 43619, 43445, 43271, 43096, 42922, 42748, 42573, 42399, 42224, 42050,
  41876, 41701, 41527, 41353, 41178, 41004, 40829, 40655, 40481, 40306, 40132, 39957, 39783, 39609, 39434,
  39260, 39085, 38911, 38737, 38562, 38388, 38213, 38039, 37865, 37690, 37516, 37341, 37167, 36993, 36818,
  36644, 36469, 36295, 36120, 35946, 35772, 35597, 35423, 35248, 35074, 34899, 34725, 34551, 34376, 34202,
  34027, 33853, 33678, 33504, 33330, 33155, 32981, 32806, 32632, 32457, 32283, 32109, 31934, 31760, 31585,
  31411, 31236, 31062, 30887, 30713, 30539, 30364, 30190, 30015, 29841, 29666, 29492, 29317, 29143, 28968,
  28794, 28619, 28445, 28271, 28096, 27922, 27747, 27573, 27398, 27224, 27049, 26875, 26700, 26526, 26351,
  26177, 26002, 25828, 25654, 25479, 25305, 25130, 24956, 24781, 24607, 24432, 24258, 24083, 23909, 23734,
  23560, 23385, 23211, 23036, 22862, 22687, 22513, 22338, 22164, 21989, 21815, 21640, 21466, 21291, 21117,
  20942, 20768, 20593, 20419, 20244, 20070, 19895, 19721, 19546, 19372, 19197, 19023, 18848, 18674, 18499,
  18325, 18150, 17976, 17801, 17627, 17452, 17278, 17103, 16929, 16754, 16580, 16405, 16231, 16056, 15882,
  15707, 15533, 15358, 15184, 15009, 14835, 14660, 14486, 14311, 14137, 13962, 13788, 13613, 13439, 13264,
  13090, 12915, 12741, 12566, 12392, 12217, 12042, 11868, 11693, 11519, 11344, 11170, 10995, 10821, 10646,
  10472, 10297, 10123, 9948, 9774, 9599, 9425, 9250, 9076, 8901, 8727, 8552, 8377, 8203, 8028,
  7854, 7679, 7505, 7330, 7156, 6981, 6807, 6632, 6458, 6283, 6109, 5934, 5760, 5585, 5410,
  5236, 5061, 4887, 4712, 4538, 4363, 4189, 4014, 3840, 3665, 3491, 3316, 3142, 2967, 2793,
  2618, 2443, 2269, 2094, 1920, 1745, 1571, 1396, 1222, 1047, 873, 698, 524, 349, 175,
  0
  >>

\* math.cos(math.radians(delta)), delta any integer number of hundredths of a degree
Cos6(delta) ==
  LET r == delta % 36000
      h == IF r > 18000 THEN 36000 - r ELSE r
  IN  IF h <= 9000 THEN CosTable[h + 1] ELSE -CosTable[18000 - h + 1]

\* a plausible slip: the sine taken for the cosine
angle_distance_sin(angle1, angle2) == 2 * (ONE - Cos6(angle1 - angle2 - 9000))

\* a plausible slip: the sum of the angles instead of their difference
angle_distance_sum(angle1, angle2) == 2 * (ONE - Cos6(angle1 + angle2))

angle_distance(angle1, angle2) ==
  LET delta == angle1 - angle2
      delta_cos == Cos6(delta)
  IN  2 * (ONE - delta_cos)

-----------------------------------------------------------------------------
(* The turn library: the entries in insertion order, medoid =               *)
(* <<omega2, phi2, psi2, omega3, phi3, psi3, omega4>>.                       *)
define_turn_library ==
  <<
     [name |-> "AD", prev_name |-> "I", no_by_size |-> 1,
      medoid |-> <<18488, -6527, -2352, 18283, -9873, -1806, 18110>>],
     [name |-> "Pd", prev_name |-> "II", no_by_size |-> 2,
      medoid |-> <<17869, -5528, 13276, 17553, 8238, -288, 17960>>],
     [name |-> "Pa", prev_name |-> "new_prev_II", no_by_size |-> 3,
      medoid |-> <<18097, -7976, 14911, 17092, 6147, 3221, 18014>>],
     [name |-> "ad", prev_name |-> "I'", no_by_size |-> 4,
      medoid |-> <<17714, 5408, 3714, 17419, 7707, 766, 18245>>],
     [name |-> "AB1", prev_name |-> "new_prev_VIII", no_by_size |-> 5,
      medoid |-> <<17829, -7675, -3307, 18005, -13767, 15599, 17953>>],
     [name |-> "AZ", prev_name |-> "new_prev_VIII", no_by_size |-> 6,
      medoid |-> <<18151, -8381, -1776, 18270, -12888, 6172, 17781>>],
     [name |-> "AB2", prev_name |-> "VIII", no_by_size |-> 7,
      medoid |-> <<17988, -7637, -3397, 18430, -11648, 12010, 18338>>],
     [name |-> "pD", prev_name |-> "II'", no_by_size |-> 8,
      medoid |-> <<17742, 5616, -13560, 18317, -9092, 481, 18004>>],
     [name |-> "AG", prev_name |-> "new_prev_VIII", no_by_size |-> 9,
      medoid |-> <<18432, -7178, -1584, 18719, -8770, 7465, 18163>>],
     [name |-> "BcisP", prev_name |-> "VIb", no_by_size |-> 10,
      medoid |-> <<17627, -12705, 12042, 35800, -6563, 16127, 18214>>],
     [name |-> "dD", prev_name |-> "new", no_by_size |-> 11,
      medoid |-> <<18257, 9989, -1734, 18502, -11378, 987, 18065>>],
     [name |-> "PcisD", prev_name |-> "VIa1", no_by_size |-> 12,
      medoid |-> <<17504, -5970, 14437, 921, -9277, 832, 17556>>],
     [name |-> "dN", prev_name |-> "new", no_by_size |-> 13,
      medoid |-> <<17853, 7606, -315, 17931, -12282, -5046, 17984>>],
     [name |-> "Dd", prev_name |-> "new", no_by_size |-> 14,
      medoid |-> <<17754, -9908, 1956, 17380, 10872, -1453, 18216>>],
     [name |-> "PcisP", prev_name |-> "new_prev_VIb", no_by_size |-> 15,
      medoid |-> <<18355, -7886, 14545, 35382, -7806, 14034, 17816>>],
     [name |-> "cisDA", prev_name |-> "new", no_by_size |-> 16,
      medoid |-> <<14, -9753, 393, 18413, -6686, -3589, 18202>>],
     [name |-> "pG", prev_name |-> "new", no_by_size |-> 17,
      medoid |-> <<18870, 6828, -13960, 17807, -7992, 12191, 17554>>],
     [name |-> "cisDP", prev_name |-> "new", no_by_size |-> 18,
      medoid |-> <<1110, -8647, 444, 16999, -7139, 15780, 17512>>]
  >>

-----------------------------------------------------------------------------
(* Python values *)

\* None; a vector is a 3-tuple and a key a 2-tuple, so None is the empty tuple
None == <<>>

Digits == <<"0", "1", "2", "3", "4", "5", "6", "7", "8", "9">>

RECURSIVE StrNat(_)
StrNat(n) == IF n < 10 THEN <<Digits[n + 1]>>
             ELSE StrNat(n \div 10) \o <<Digits[(n % 10) + 1]>>

\* str(n) of an int: the decimal digits, a leading "-" when negative
Str(n) == IF n < 0 THEN <<"-">> \o StrNat(-n) ELSE StrNat(n)

DigitValue(c) == CHOOSE d \in 0..9 : Digits[d + 1] = c

RECURSIVE IntNat(_)
IntNat(s) == IF Len(s) = 0 THEN 0
             ELSE 10 * IntNat(SubSeq(s, 1, Len(s) - 1)) + DigitValue(s[Len(s)])

\* int(s) of a decimal string
Int_(s) == IF Len(s) > 0 /\ s[1] = "-" THEN -IntNat(Tail(s)) ELSE IntNat(s)

\* Bio.PDB Vector: v1 - v4 and .norm(). The norm is rounded up to the grid, so
\* that norm > c for a grid value c is exact, and the norm itself is exact
\* whenever the true length is on the grid.
VecSub(v, w) == <<v[1] - w[1], v[2] - w[2], v[3] - w[3]>>

RECURSIVE CeilSqrtIn(_, _, _)
CeilSqrtIn(lo, hi, x) ==
  IF lo >= hi THEN lo
  ELSE LET mid == (lo + hi) \div 2
       IN  IF mid * mid >= x THEN CeilSqrtIn(lo, mid, x) ELSE CeilSqrtIn(mid + 1, hi, x)

VecNorm(v) == CeilSqrtIn(0, 40000, v[1] * v[1] + v[2] * v[2] + v[3] * v[3])

-----------------------------------------------------------------------------
(* Residue helpers *)

getres1(res3) ==
  CASE res3 = "ALA" -> "A" [] res3 = "CYS" -> "C" [] res3 = "ASP" -> "D"
    [] res3 = "GLU" -> "E" [] res3 = "PHE" -> "F" [] res3 = "GLY" -> "G"
    [] res3 = "HIS" -> "H" [] res3 = "ILE" -> "I" [] res3 = "LYS" -> "K"
    [] res3 = "LEU" -> "L" [] res3 = "MET" -> "M" [] res3 = "ASN" -> "N"
    [] res3 = "PRO" -> "P" [] res3 = "GLN" -> "Q" [] res3 = "ARG" -> "R"
    [] res3 = "SER" -> "S" [] res3 = "THR" -> "T" [] res3 = "VAL" -> "V"
    [] res3 = "TRP" -> "W" [] res3 = "TYR" -> "Y"
    [] OTHER -> "X"

\* residue.has_id(atomname)
has_id(residue, atomname) == atomname \in residue.atoms

(* The dihedral functions. calc_dihedral is Bio.PDB's: the angle it returns *)
(* for the four atoms is a datum of the residue (gphi, gpsi, gomega), in    *)
(* [-180, 180] degrees.                                                      *)

\* a plausible slip: the sequence-number test left out
compute_psi_no_seq(curr_residue, next_residue) ==
  IF /\ has_id(curr_residue, "N")
     /\ has_id(curr_residue, "CA")
     /\ has_id(curr_residue, "C")
     /\ has_id(next_residue, "N")
  THEN curr_residue.gpsi
  ELSE SENTINEL

compute_phi(prev_residue, curr_residue) ==
  IF /\ has_id(prev_residue, "C")
     /\ has_id(curr_residue, "N")
     /\ has_id(curr_residue, "CA")
     /\ has_id(curr_residue, "C")
     /\ curr_residue.seq = prev_residue.seq + 1
  THEN curr_residue.gphi
  ELSE SENTINEL

compute_psi(curr_residue, next_residue) ==
  IF /\ has_id(curr_residue, "N")
     /\ has_id(curr_residue, "CA")
     /\ has_id(curr_residue, "C")
     /\ has_id(next_residue, "N")
     /\ next_residue.seq = curr_residue.seq + 1
  THEN curr_residue.gpsi
  ELSE SENTINEL

compute_omega(prev_residue, curr_residue) ==
  IF /\ has_id(prev_residue, "CA")
     /\ has_id(prev_residue, "C")
     /\ has_id(curr_residue, "N")
     /\ has_id(curr_residue, "CA")
     /\ curr_residue.seq = prev_residue.seq + 1
  THEN curr_residue.gomega
  ELSE SENTINEL

-----------------------------------------------------------------------------
(* The residue feature table of one chain (main, the loop over aa_residues) *)

\* a plausible slip: the residues of the chain taken without the is_aa test
aa_residues_unfiltered(chain1) == chain1.residues

\* aa_residues = [r for r in chain1 if is_aa(r)]
aa_residues(chain1) == SelectSeq(chain1.residues, LAMBDA r : r.aa)

\* the auth_key and label_key of a residue
AuthKey(chain1, res) == <<chain1.id, Str(res.seq)>>

LabelKey(sdict, auth_key) ==
  IF auth_key \in DOMAIN sdict
  THEN <<sdict[auth_key].asym_id, sdict[auth_key].seq_id>>
  ELSE None

\* a plausible slip: the '.' of a residue without annotation kept
DsspValueKept(dssp_value) == dssp_value

\* if dssp_value == ".": dssp_value = "C"
DsspValue(dssp_value) == IF dssp_value = "." THEN "C" ELSE dssp_value

\* the record appended to datadict[chain1] for aa_residues[i] (i from 1)
TableRow(chain1, sdict, ddict, aa, i) ==
  LET res       == aa[i]
      phi       == IF i > 1 THEN compute_phi(aa[i - 1], res) ELSE SENTINEL
      omega     == IF i > 1 THEN compute_omega(aa[i - 1], res) ELSE SENTINEL
      psi       == IF i + 1 <= Len(aa) THEN compute_psi(res, aa[i + 1]) ELSE SENTINEL
      auth_key  == AuthKey(chain1, res)
      label_key == LabelKey(sdict, auth_key)
      found     == label_key # None /\ label_key \in DOMAIN ddict
      dssp_raw  == IF found THEN ddict[label_key].secondary_structure ELSE "."
      three10   == IF found THEN ddict[label_key].helix_3_10 ELSE "."
      dssp_value == DsspValue(dssp_raw)
  IN  [model     |-> chain1.model,
       chain_id  |-> chain1.id,
       resnum    |-> res.seq,
       resname   |-> res.resname,
       res1      |-> getres1(res.resname),
       omega     |-> omega,
       phi       |-> phi,
       psi       |-> psi,
       dssp_ss   |-> dssp_value,
       three10   |-> three10,
       auth_key  |-> auth_key,
       label_key |-> label_key,
       CAcoor    |-> IF has_id(res, "CA") THEN res.ca ELSE None]

TableRows(chain1, sdict, ddict) ==
  LET aa == aa_residues(chain1)
  IN  [i \in 1..Len(aa) |-> TableRow(chain1, sdict, ddict, aa, i)]

\* the number of "Missing seqscheme_dict entry" warnings the chain's table writes
TableWarnings(chain1, sdict) ==
  LET aa == aa_residues(chain1)
  IN  Cardinality({i \in 1..Len(aa) : AuthKey(chain1, aa[i]) \notin DOMAIN sdict})

-----------------------------------------------------------------------------
(* The window gate (main, the checks before the cluster loop). A window w  *)
(* is the four rows datadict[chain][i .. i+3], here w[1] .. w[4].            *)

WindowAt(rows, i) == <<rows[i + 1], rows[i + 2], rows[i + 3], rows[i + 4]>>

dssp_string(w) == <<w[1].dssp_ss, w[2].dssp_ss, w[3].dssp_ss, w[4].dssp_ss>>

three10string(w) == <<w[1].three10, w[2].three10, w[3].three10, w[4].three10>>

\* a plausible slip: one of the three strings forgotten
ForbiddenStringNoGGGH(w) ==
  \/ dssp_string(w) = <<"H", "G", "G", "G">>
  \/ dssp_string(w) = <<"G", "G", "G", "G">>

\* dssp_string == "HGGG" / "GGGH" / "GGGG"
ForbiddenString(w) ==
  \/ dssp_string(w) = <<"H", "G", "G", "G">>
  \/ dssp_string(w) = <<"G", "G", "G", "H">>
  \/ dssp_string(w) = <<"G", "G", "G", "G">>

\* a plausible slip: 'E' tested for residue 2 only
MiddleRegularNoE3(w) ==
  \/ w[2].dssp_ss \in {"H", "E"}
  \/ w[3].dssp_ss \in {"H"}

\* dssp2 in ('H','E') or dssp3 in ('H','E')
MiddleRegular(w) ==
  \/ w[2].dssp_ss \in {"H", "E"}
  \/ w[3].dssp_ss \in {"H", "E"}

StartsWithGGG(s) == s[1] = "G" /\ s[2] = "G" /\ s[3] = "G"

EndsWithGGG(s) == s[2] = "G" /\ s[3] = "G" /\ s[4] = "G"

\* a plausible slip: endswith forgotten
ThreeTenBlockedStartOnly(w) ==
  /\ StartsWithGGG(dssp_string(w))
  /\ \A j \in 1..4 : three10string(w)[j] # "3"

\* (startswith("GGG") or endswith("GGG")) and "3" not in three10string
ThreeTenBlocked(w) ==
  /\ StartsWithGGG(dssp_string(w)) \/ EndsWithGGG(dssp_string(w))
  /\ \A j \in 1..4 : three10string(w)[j] # "3"

\* omega2, phi2, psi2, omega3, phi3, psi3, omega4
WindowAngles(w) ==
  <<w[2].omega, w[2].phi, w[2].psi, w[3].omega, w[3].phi, w[3].psi, w[4].omega>>

\* plausible slips: the tests of the last residue pair, or of the first, forgotten
AnglesResolvedFirstFive(w) == \A j \in 1..5 : WindowAngles(w)[j] # SENTINEL

AnglesResolvedLastFive(w) == \A j \in 3..7 : WindowAngles(w)[j] # SENTINEL

\* none of the seven "if x == 999.0: continue" fires
AnglesResolved(w) == \A j \in 1..7 : WindowAngles(w)[j] # SENTINEL

\* CA1_CA4_distance = (vector1 - vector4).norm(), both vectors not None
CA1_CA4_distance(w) == VecNorm(VecSub(w[1].CAcoor, w[4].CAcoor))

\* a plausible slip: >= for >
TooLongInclusive(w) == CA1_CA4_distance(w) >= CA_CUTOFF

\* CA1_CA4_distance > 7.0
TooLong(w) == CA1_CA4_distance(w) > CA_CUTOFF

\* a plausible slip: the CA1-CA4 distance computed before the two CA atoms
\* are known to be there (None - vector raises TypeError)
GateDistanceFirst(w) ==
  IF w[1].CAcoor = None \/ w[4].CAcoor = None THEN "TypeError"
  ELSE IF ForbiddenString(w) THEN "ss_string"
  ELSE IF MiddleRegular(w) THEN "ss_middle"
  ELSE IF ThreeTenBlocked(w) THEN "three10"
  ELSE IF ~AnglesResolved(w) THEN "sentinel"
  ELSE IF TooLong(w) THEN "ca_distance"
  ELSE "pass"

\* The first "continue" the window runs into, in the order of the code, or "pass"
Gate(w) ==
  IF w[1].CAcoor = None THEN "no_CA1"
  ELSE IF w[4].CAcoor = None THEN "no_CA4"
  ELSE IF ForbiddenString(w) THEN "ss_string"
  ELSE IF MiddleRegular(w) THEN "ss_middle"
  ELSE IF ThreeTenBlocked(w) THEN "three10"
  ELSE IF ~AnglesResolved(w) THEN "sentinel"
  ELSE IF TooLong(w) THEN "ca_distance"
  ELSE "pass"

-----------------------------------------------------------------------------
(* The classifier (main, the cluster loop and the cutoff)                  *)

\* D: the seven angle distances added up (the mean, in sevenths of a millionth)
TurnDistance(angles, medoid) ==
  angle_distance(angles[1], medoid[1]) +
  angle_distance(angles[2], medoid[2]) +
  angle_distance(angles[3], medoid[3]) +
  angle_distance(angles[4], medoid[4]) +
  angle_distance(angles[5], medoid[5]) +
  angle_distance(angles[6], medoid[6]) +
  angle_distance(angles[7], medoid[7])

\* a plausible slip: <= for <, so that the last of several equal minima wins
CloserOrEqual(D, minD) == D <= minD

\* if D<minD
Closer(D, minD) == D < minD

\* for turn in turnlibrary, from entry t on; minturn holds the key of the entry
RECURSIVE ClusterLoop(_, _, _, _, _)
ClusterLoop(lib, angles, t, minD, mt) ==
  IF t > Len(lib) THEN [minD |-> minD, minturn |-> mt]
  ELSE LET D == TurnDistance(angles, lib[t].medoid)
       IN  IF Closer(D, minD)
           THEN ClusterLoop(lib, angles, t + 1, D, lib[t].name)
           ELSE ClusterLoop(lib, angles, t + 1, minD, mt)

\* a plausible slip: a window is not given the type the window before it was given
NearestButPrevious(lib, angles, mt) ==
  ClusterLoop(SelectSeq(lib, LAMBDA entry : entry.name # mt), angles, 1, MIND_START, mt)

\* minD=100.0 and the loop; mt is what minturn held before
Nearest(lib, angles, mt) == ClusterLoop(lib, angles, 1, MIND_START, mt)

\* a plausible slip: < for <=
AcceptedStrict(minD) == minD < TURN_DIST_CUTOFF

\* a plausible slip: the largest distance find_theta_in_degrees takes used as the cutoff
AcceptedWithinFour(minD) == minD <= THETA_MAX_D

\* if minD<= TURN_DIST_CUTOFF
Accepted(minD) == minD <= TURN_DIST_CUTOFF

\* turnlibrary[minturn]
LibEntry(lib, key) == lib[CHOOSE t \in 1..Len(lib) : lib[t].name = key]

\* math.acos on the grid: the largest h in lo..hi with 14*(1 - cos h) <= D,
\* that is cos h >= 1 - D/2 (D in sevenths of a millionth)
RECURSIVE ACosIn(_, _, _)
ACosIn(lo, hi, D) ==
  IF lo >= hi THEN lo
  ELSE LET mid == (lo + hi + 1) \div 2
       IN  IF 14 * (ONE - Cos6(mid)) <= D THEN ACosIn(mid, hi, D) ELSE ACosIn(lo, mid - 1, D)

\* a plausible slip: the two ends of [0, 4] refused as well
find_theta_open_interval(D) ==
  IF D <= 0 \/ D >= THETA_MAX_D
  THEN [raised |-> TRUE, theta |-> 0]
  ELSE [raised |-> FALSE, theta |-> ACosIn(0, 18000, D)]

\* raised: the ValueError; otherwise theta in hundredths of a degree
find_theta_in_degrees(D) ==
  IF D < 0 \/ D > THETA_MAX_D
  THEN [raised |-> TRUE, theta |-> 0]
  ELSE [raised |-> FALSE, theta |-> ACosIn(0, 18000, D)]

\* a plausible slip: the window's length taken for 4 residues after the first
LastResnumPlus4(resnum1) == resnum1 + 4

\* resnum4 = resnum1+3
LastResnum(resnum1) == resnum1 + 3

\* the values of the line printed for an accepted window
TurnRecord(lib, n, w, near) ==
  LET resnum1 == Int_(w[1].auth_key[2])
  IN  [turn      |-> n,
       chain     |-> w[1].chain_id,
       resnum1   |-> resnum1,
       resnum4   |-> LastResnum(resnum1),
       seq       |-> <<w[1].res1, w[2].res1, w[3].res1, w[4].res1>>,
       dssp      |-> dssp_string(w),
       type      |-> near.minturn,
       prevname  |-> LibEntry(lib, near.minturn).prev_name,
       minD      |-> near.minD,
       mintheta  |-> find_theta_in_degrees(near.minD).theta,
       ca1_ca4   |-> CA1_CA4_distance(w),
       angles    |-> WindowAngles(w)]

-----------------------------------------------------------------------------
(* Input structures. A chain is [model, id, residues, ann]: residues are   *)
(* what the structure parser gives, ann[j] is what the annotator's file     *)
(* holds for residue j (mapped: a pdbx_poly_seq_scheme row; row: a          *)
(* dssp_struct_summary row with fields ss and t10).                          *)

\* an angle brought into (-180, 180], the range of calc_dihedral
Wrap(a) == LET r == a % 36000 IN IF r > 18000 THEN r - 36000 ELSE r

AllAtoms == {"N", "CA", "C"}

ResNames == <<"ASP", "PRO", "MSE", "GLY">>

\* omega, phi, psi of a regular residue: those of residue 2 of the first medoid
Background ==
  LET m == define_turn_library[1].medoid IN <<Wrap(m[1]), Wrap(m[2]), Wrap(m[3])>>

\* residue j of a regular chain: numbered from 8, all backbone atoms, the CA
\* atoms 1.80 apart along x, so that CA(i)-CA(i+3) = 5.40
RegularResidue(j) ==
  [seq     |-> 7 + j,
   aa      |-> TRUE,
   resname |-> ResNames[((j - 1) % 4) + 1],
   atoms   |-> AllAtoms,
   ca      |-> <<180 * (j - 1), 0, 0>>,
   gomega  |-> Background[1],
   gphi    |-> Background[2],
   gpsi    |-> Background[3]]

RegularAnn == [mapped |-> TRUE, row |-> TRUE, ss |-> "T", t10 |-> "."]

RegularChain(n) ==
  [model |-> 0, id |-> "A",
   residues |-> [j \in 1..n |-> RegularResidue(j)],
   ann |-> [j \in 1..n |-> RegularAnn]]

(* Family 1: the window at start index p has the seven angles wang.        *)
Shifted(medoid, dev) == [j \in 1..7 |-> Wrap(medoid[j] + dev[j])]

\* deviations from a medoid: none, 1 degree, on the cutoff (mean distance
\* exactly 0.2359), just beyond it, and 90 degrees in every angle
Deviations ==
  { <<0, 0, 0, 0, 0, 0, 0>>,
    <<100, -100, 100, -100, 100, -100, 100>>,
    <<2597, 2597, 2597, 2597, 2597, 2597, 3872>>,
    <<2597, 2597, 2597, 2597, 2597, 2597, 3873>>,
    <<9000, 9000, 9000, 9000, 9000, 9000, 9000>> }

\* windows at the same mean distance from two medoids (AB1/AB2, AZ/AG, Pd/Pa)
TieWindows ==
  { <<17975, -7595, -3594, -17874, -12877, 13696, -17911>>,
    <<-17632, -7566, -1843, -17508, -10907, 6953, 17698>>,
    <<-17868, -6840, 13941, 17237, 7246, 1483, -17725>> }

WindowChoices ==
  {Shifted(define_turn_library[k].medoid, dev) :
     k \in 1..Len(define_turn_library), dev \in Deviations} \cup TieWindows

TemplateChain(n, p, wang) ==
  LET base == RegularChain(n)
      res(j) ==
        IF j = p + 2
        THEN [base.residues[j] EXCEPT !.gomega = wang[1], !.gphi = wang[2], !.gpsi = wang[3]]
        ELSE IF j = p + 3
        THEN [base.residues[j] EXCEPT !.gomega = wang[4], !.gphi = wang[5], !.gpsi = wang[6]]
        ELSE IF j = p + 4
        THEN [base.residues[j] EXCEPT !.gomega = wang[7]]
        ELSE base.residues[j]
  IN  [base EXCEPT !.residues = [j \in 1..n |-> res(j)]]

(* Family 2: the annotation of the first four residues varies.             *)
SSCodes == {"H", "E", "G", "T"}

\* the markers of a run whose middle residue is residue q (q = 0: no run)
Marker(q, j) == IF q = 0 THEN "."
                ELSE IF j = q THEN "3"
                ELSE IF j = q - 1 THEN ">"
                ELSE IF j = q + 1 THEN "<"
                ELSE "."

AnnotatedChain(n, ss, q) ==
  [RegularChain(n) EXCEPT
     !.ann = [j \in 1..n |->
                [RegularAnn EXCEPT !.ss = IF j <= 4 THEN ss[j] ELSE "T",
                                   !.t10 = Marker(q, j)]]]

(* Family 3: up to MaxDefects of the first four residues are not regular.  *)
\* an atom missing; a residue missing before this one (gap); a residue numbered
\* like its predecessor (insertion code); the CA moved 1.60 along x, which makes
\* a CA(i)-CA(i+3) distance of 5.40 exactly 7.00, or moved off the axis as well
DefectKinds == {"no_N", "no_CA", "no_C", "gap", "icode", "ca_at_7", "ca_over_7"}

\* how far the sequence numbers of residue j have moved: +1 for a gap before
\* a residue at or before j, -1 for a residue numbered like its predecessor
SeqOffset(defect, j) ==
  Cardinality({k \in DOMAIN defect : k <= j /\ defect[k] = "gap"})
  - Cardinality({k \in DOMAIN defect : k <= j /\ defect[k] = "icode"})

DefectResidue(defect, j) ==
  LET r == RegularResidue(j)
      kind == IF j \in DOMAIN defect THEN defect[j] ELSE "none"
  IN  [r EXCEPT
         !.seq = r.seq + SeqOffset(defect, j),
         !.atoms = CASE kind = "no_N" -> AllAtoms \ {"N"}
                     [] kind = "no_CA" -> AllAtoms \ {"CA"}
                     [] kind = "no_C" -> AllAtoms \ {"C"}
                     [] OTHER -> AllAtoms,
         !.ca = CASE kind = "ca_at_7" -> <<r.ca[1] + 160, 0, 0>>
                  [] kind = "ca_over_7" -> <<r.ca[1] + 160, 40, 0>>
                  [] OTHER -> r.ca]

DefectChain(n, defect) ==
  [RegularChain(n) EXCEPT !.residues = [j \in 1..n |-> DefectResidue(defect, j)]]

DefectMaps ==
  UNION {[D -> DefectKinds] : D \in {S \in SUBSET (1..4) : Cardinality(S) <= MaxDefects}}

(* Family 4: several chains of regular residues, of any length.            *)
ChainIds == <<"A", "B", "C", "D">>

RegularChains(lens) ==
  [c \in 1..Len(lens) |-> [RegularChain(lens[c]) EXCEPT !.id = ChainIds[c]]]

ChainLengths == UNION {[1..m -> 1..MaxLen] : m \in 1..MaxChains}

(* Family 5: the same chain twice or more, one copy per model.             *)
RegularModels(lens) ==
  [c \in 1..Len(lens) |-> [RegularChain(lens[c]) EXCEPT !.model = c - 1]]

(* Family 6: the annotation of the first four residues has gaps: a residue *)
(* without an entry in the correspondence table, a residue whose key has   *)
(* no annotator row, a residue whose row holds '.' as its code.            *)
AnnKinds == {"ok", "unmapped", "norow", "dot"}

GapAnn(kind) ==
  [mapped |-> kind # "unmapped",
   row    |-> kind # "norow",
   ss     |-> IF kind = "dot" THEN "." ELSE "T",
   t10    |-> "."]

AnnotationGapChain(n, gaps) ==
  [RegularChain(n) EXCEPT
     !.ann = [j \in 1..n |-> IF j <= 4 THEN GapAnn(gaps[j]) ELSE RegularAnn]]

(* Family 7: residue h of the chain is not an amino acid (is_aa false).    *)
HeteroChain(n, h) ==
  [RegularChain(n) EXCEPT
     !.residues = [j \in 1..n |->
                     IF j = h THEN [RegularResidue(j) EXCEPT !.aa = FALSE, !.resname = "HOH"]
                     ELSE RegularResidue(j)]]

(* Family 8: four residues whose annotation varies and one of which is    *)
(* not regular, so that a window can fail several checks of the gate.      *)
MixedChain(ss, q, j, kind) ==
  [AnnotatedChain(4, ss, q) EXCEPT !.residues = DefectChain(4, [k \in {j} |-> kind]).residues]

(* The annotator's two tables for a structure                              *)
Positions(chs) ==
  {pos \in (1..Len(chs)) \X (1..MaxLen) : pos[2] <= Len(chs[pos[1]].residues)}

\* the later of two rows of a file
Later(p1, p2) == p1[1] > p2[1] \/ (p1[1] = p2[1] /\ p1[2] >= p2[2])

SeqschemeOf(chs) ==
  LET key(pos) == <<chs[pos[1]].id, Str(chs[pos[1]].residues[pos[2]].seq)>>
      rows == {pos \in Positions(chs) : chs[pos[1]].ann[pos[2]].mapped}
  IN  [k \in {key(pos) : pos \in rows} |->
         LET last == CHOOSE pos \in rows :
                       key(pos) = k /\ \A q \in rows : key(q) = k => Later(pos, q)
         IN  [asym_id |-> chs[last[1]].id, seq_id |-> Str(last[2])]]

DsspOf(chs) ==
  LET rows == {pos \in Positions(chs) : chs[pos[1]].ann[pos[2]].row}
  IN  [k \in {<<chs[pos[1]].id, Str(pos[2])>> : pos \in rows} |->
         LET pos == CHOOSE q \in rows : <<chs[q[1]].id, Str(q[2])>> = k
         IN  [secondary_structure |-> chs[pos[1]].ann[pos[2]].ss,
              helix_3_10 |-> chs[pos[1]].ann[pos[2]].t10]]

\* structure1: the chains without the annotation
StructureOf(chs) ==
  [c \in 1..Len(chs) |->
     [model |-> chs[c].model, id |-> chs[c].id, residues |-> chs[c].residues]]

-----------------------------------------------------------------------------
(* What a run finds outside the program, and what it leaves there         *)

\* no exception
NoError == [type |-> "none", msg |-> <<>>]

\* no call made
NoCall == [fn |-> "none", args |-> <<>>, raised |-> FALSE, result |-> 0]

\* a structure file that is there, an annotator that is there and exits with 0
ReadyEnv(chs) ==
  [is_file     |-> TRUE,
   exe_is_file |-> TRUE,
   returncode  |-> 0,
   stderr      |-> "",
   suffix      |-> ".cif",
   content     |-> chs]

-----------------------------------------------------------------------------
(* main() as a state machine                                               *)

\* the state when main has parsed the annotator's file and the structure chs
InitWith(chs) ==
    /\ structure = StructureOf(chs)
    /\ seqscheme_dict = SeqschemeOf(chs)
    /\ dssp_dict = DsspOf(chs)
    /\ turnlibrary = define_turn_library
    /\ datadict = <<>>
    /\ pc = "build"
    /\ ci = 1
    /\ wi = 0
    /\ nturns = 0
    /\ out = <<>>
    /\ err = 0
    /\ minturn = "unbound"
    /\ log = <<>>
    /\ env = ReadyEnv(chs)
    /\ handles = {"handle"}
    /\ files = {"dssp_output"}
    /\ raised = NoError
    /\ call = NoCall

Init ==
  \/ \E n \in 4..MaxLen : \E p \in 0..(n - 4) : \E wang \in WindowChoices :
       InitWith(<<TemplateChain(n, p, wang)>>)
  \/ \E n \in 4..MaxLen : \E ss \in [1..4 -> SSCodes] : \E q \in 0..4 :
       InitWith(<<AnnotatedChain(n, ss, q)>>)
  \/ \E n \in 4..MaxLen : \E defect \in DefectMaps :
       InitWith(<<DefectChain(n, defect)>>)
  \/ \E lens \in ChainLengths :
       InitWith(RegularChains(lens))
  \/ \E lens \in ChainLengths :
       Len(lens) > 1 /\ InitWith(RegularModels(lens))
  \/ \E n \in 4..MaxLen : \E gaps \in [1..4 -> AnnKinds] :
       InitWith(<<AnnotationGapChain(n, gaps)>>)

\* for chain1 in model1: fewer than 4 amino-acid residues, continue
SkipShortChain ==
  /\ pc = "build"
  /\ ci <= Len(structure)
  /\ Len(aa_residues(structure[ci])) < 4
  /\ ci' = ci + 1
  /\ UNCHANGED <<env, handles, files, raised, call, structure, seqscheme_dict, dssp_dict, datadict, pc, wi, nturns, out, err,
                 turnlibrary, minturn, log>>

\* for chain1 in model1: datadict[chain1] gets one row per amino-acid residue
BuildTable ==
  /\ pc = "build"
  /\ ci <= Len(structure)
  /\ Len(aa_residues(structure[ci])) >= 4
  /\ datadict' = Append(datadict,
                        [chain |-> ci,
                         id    |-> structure[ci].id,
                         rows  |-> TableRows(structure[ci], seqscheme_dict, dssp_dict)])
  /\ err' = err + TableWarnings(structure[ci], seqscheme_dict)
  /\ ci' = ci + 1
  /\ UNCHANGED <<env, handles, files, raised, call, structure, seqscheme_dict, dssp_dict, pc, wi, nturns, out,
                 turnlibrary, minturn, log>>

\* a plausible slip: the counter started at 1, and incremented before a line is printed
StartScanFromOne ==
  /\ pc = "build"
  /\ ci > Len(structure)
  /\ pc' = "scan"
  /\ ci' = 1
  /\ wi' = 0
  /\ nturns' = 1
  /\ UNCHANGED <<env, handles, files, raised, call, structure, seqscheme_dict, dssp_dict,
                 datadict, out, err, turnlibrary, minturn, log>>

\* nturns=0, the header, and the first "for chain in datadict"
StartScan ==
  /\ pc = "build"
  /\ ci > Len(structure)
  /\ pc' = "scan"
  /\ ci' = 1
  /\ wi' = 0
  /\ nturns' = 0
  /\ UNCHANGED <<env, handles, files, raised, call, structure, seqscheme_dict, dssp_dict, datadict, out, err,
                 turnlibrary, minturn, log>>

\* a plausible slip: the last window of a chain left out
ScanRangeShort(rows) == Len(rows) - 4

\* range(len(datadict[chain]) - 3): the number of start indices, from 0
ScanRange(rows) == Len(rows) - 3

\* the scan is at window wi of chain ci of datadict
AtWindow ==
  /\ pc = "scan"
  /\ ci <= Len(datadict)
  /\ wi < ScanRange(datadict[ci].rows)

CurrentWindow == WindowAt(datadict[ci].rows, wi)

\* a plausible slip: a loop that tests the window again instead of taking the
\* next start index (a while loop whose continue skips the increment)
RejectAtGateStuck ==
  /\ AtWindow
  /\ Gate(CurrentWindow) # "pass"
  /\ wi' = wi
  /\ UNCHANGED <<env, handles, files, raised, call, structure, seqscheme_dict, dssp_dict,
                 datadict, pc, ci, nturns, out, err, turnlibrary, minturn, log>>

\* one of the "continue" statements before the cluster loop
RejectAtGate ==
  /\ AtWindow
  /\ Gate(CurrentWindow) # "pass"
  /\ log' = Append(log, [chain |-> ci, i |-> wi, gate |-> Gate(CurrentWindow),
                         scored |-> FALSE, minD |-> MIND_START, minturn |-> minturn,
                         turn |-> 0])
  /\ wi' = wi + 1
  /\ UNCHANGED <<env, handles, files, raised, call, structure, seqscheme_dict, dssp_dict, datadict, pc, ci, nturns, out, err,
                 turnlibrary, minturn>>

\* a plausible slip: the window counted before the cutoff is looked at
RejectAtCutoffCounted ==
  /\ AtWindow
  /\ Gate(CurrentWindow) = "pass"
  /\ LET near == Nearest(turnlibrary, WindowAngles(CurrentWindow), minturn)
     IN  /\ ~Accepted(near.minD)
         /\ minturn' = near.minturn
         /\ log' = Append(log, [chain |-> ci, i |-> wi, gate |-> "pass",
                                scored |-> TRUE, minD |-> near.minD,
                                minturn |-> near.minturn, turn |-> 0])
  /\ wi' = wi + 1
  /\ nturns' = nturns + 1
  /\ UNCHANGED <<env, handles, files, raised, call, structure, seqscheme_dict, dssp_dict,
                 datadict, pc, ci, out, err, turnlibrary>>

\* the cluster loop, and minD > TURN_DIST_CUTOFF
RejectAtCutoff ==
  /\ AtWindow
  /\ Gate(CurrentWindow) = "pass"
  /\ LET near == Nearest(turnlibrary, WindowAngles(CurrentWindow), minturn)
     IN  /\ ~Accepted(near.minD)
         /\ minturn' = near.minturn
         /\ log' = Append(log, [chain |-> ci, i |-> wi, gate |-> "pass",
                                scored |-> TRUE, minD |-> near.minD,
                                minturn |-> near.minturn, turn |-> 0])
  /\ wi' = wi + 1
  /\ UNCHANGED <<env, handles, files, raised, call, structure, seqscheme_dict, dssp_dict, datadict, pc, ci, nturns, out, err,
                 turnlibrary>>

\* the cluster loop, minD <= TURN_DIST_CUTOFF, and the line printed
EmitTurn ==
  /\ AtWindow
  /\ Gate(CurrentWindow) = "pass"
  /\ LET near == Nearest(turnlibrary, WindowAngles(CurrentWindow), minturn)
     IN  /\ Accepted(near.minD)
         /\ minturn' = near.minturn
         /\ nturns' = nturns + 1
         /\ IF find_theta_in_degrees(near.minD).raised
            THEN pc' = "error" /\ out' = out
            ELSE pc' = pc /\
                 out' = Append(out, TurnRecord(turnlibrary, nturns + 1, CurrentWindow, near))
         /\ call' = [fn |-> "find_theta_in_degrees", args |-> <<near.minD>>,
                     raised |-> find_theta_in_degrees(near.minD).raised,
                     result |-> find_theta_in_degrees(near.minD).theta]
         /\ log' = Append(log, [chain |-> ci, i |-> wi, gate |-> "pass",
                                scored |-> TRUE, minD |-> near.minD,
                                minturn |-> near.minturn, turn |-> nturns + 1])
  /\ wi' = wi + 1
  /\ UNCHANGED <<env, handles, files, raised, structure, seqscheme_dict, dssp_dict, datadict,
                 ci, err, turnlibrary>>

\* a plausible slip: the turn counter started again for every chain
NextChainResetsCounter ==
  /\ pc = "scan"
  /\ ci <= Len(datadict)
  /\ wi >= ScanRange(datadict[ci].rows)
  /\ ci' = ci + 1
  /\ wi' = 0
  /\ nturns' = 0
  /\ UNCHANGED <<env, handles, files, raised, call, structure, seqscheme_dict, dssp_dict,
                 datadict, pc, out, err, turnlibrary, minturn, log>>

\* range(len(datadict[chain]) - 3) is used up: the next chain of datadict
NextChain ==
  /\ pc = "scan"
  /\ ci <= Len(datadict)
  /\ wi >= ScanRange(datadict[ci].rows)
  /\ ci' = ci + 1
  /\ wi' = 0
  /\ UNCHANGED <<env, handles, files, raised, call, structure, seqscheme_dict, dssp_dict, datadict, pc, nturns, out, err,
                 turnlibrary, minturn, log>>

\* datadict is used up: main returns
Finish ==
  /\ pc = "scan"
  /\ ci > Len(datadict)
  /\ pc' = "done"
  /\ UNCHANGED <<env, handles, files, raised, call, structure, seqscheme_dict, dssp_dict, datadict, ci, wi, nturns, out, err,
                 turnlibrary, minturn, log>>

Next ==
  \/ SkipShortChain
  \/ BuildTable
  \/ StartScan
  \/ RejectAtGate
  \/ RejectAtCutoff
  \/ EmitTurn
  \/ NextChain
  \/ Finish

Spec == Init /\ [][Next]_vars

\* The table and the scan of a few structures, with the fairness of a
\* sequential program: a statement that can run does run.
InitFair ==
  \/ \E n \in 1..MaxLen :
       InitWith(RegularChains(<<n>>))
  \/ \E n \in 1..MaxLen :
       InitWith(RegularChains(<<3, n>>))
  \/ \E n \in 1..MaxLen :
       InitWith(RegularChains(<<n, 4>>))
  \/ \E dev \in Deviations :
       InitWith(<<TemplateChain(4, 0, Shifted(define_turn_library[1].medoid, dev))>>)
  \/ \E kind \in DefectKinds :
       InitWith(<<DefectChain(4, [j \in {1} |-> kind])>>)

SpecFair == InitFair /\ [][Next]_vars /\ WF_vars(Next)

-----------------------------------------------------------------------------
(* main() from its first line: the annotator is run, its output parsed,    *)
(* the library built, the structure file opened and parsed, and then the   *)
(* table and the scan as above.                                             *)

\* a plausible slip: the annotator's exit status not looked at (check=False)
run_dssp_unchecked(e) ==
  IF ~e.is_file
  THEN [raised |-> [type |-> "FileNotFoundError", msg |-> <<"Structure file not found: ">>],
        files |-> {}]
  ELSE IF ~e.exe_is_file
  THEN [raised |-> [type |-> "FileNotFoundError", msg |-> <<"DSSP executable not found: ">>],
        files |-> {}]
  ELSE [raised |-> NoError, files |-> {"dssp_output"}]

\* run_dssp: the exception it raises, if any, and the files it leaves. The
\* two files of the "with" statement are closed when it is left, the cleaned
\* copy is removed on both paths after the annotator has run.
run_dssp(e) ==
  IF ~e.is_file
  THEN [raised |-> [type |-> "FileNotFoundError", msg |-> <<"Structure file not found: ">>],
        files |-> {}]
  ELSE IF ~e.exe_is_file
  THEN [raised |-> [type |-> "FileNotFoundError", msg |-> <<"DSSP executable not found: ">>],
        files |-> {}]
  ELSE IF e.returncode # 0
  THEN [raised |-> [type |-> "RuntimeError", msg |-> <<"Error running DSSP: ", e.stderr>>],
        files |-> {}]
  ELSE [raised |-> NoError, files |-> {"dssp_output"}]

\* the state when main is entered
InitRunWith(e) ==
    /\ env = e
    /\ structure = <<>>
    /\ seqscheme_dict = <<>>
    /\ dssp_dict = <<>>
    /\ turnlibrary = <<>>
    /\ datadict = <<>>
    /\ pc = "start"
    /\ ci = 1
    /\ wi = 0
    /\ nturns = 0
    /\ out = <<>>
    /\ err = 0
    /\ minturn = "unbound"
    /\ log = <<>>
    /\ handles = {}
    /\ files = {}
    /\ raised = NoError
    /\ call = NoCall

InitRun ==
  \/ \E lens \in ChainLengths : \E f \in BOOLEAN : \E x \in BOOLEAN :
     \E rc \in {0, 1} : \E msg \in {"", "unable to read"} :
     \E sfx \in {".cif", ".pdb", ".ent"} :
       InitRunWith([is_file |-> f, exe_is_file |-> x, returncode |-> rc, stderr |-> msg,
                    suffix |-> sfx, content |-> RegularChains(lens)])
  \/ \E n \in 4..MaxLen : \E wang \in WindowChoices :
       InitRunWith(ReadyEnv(<<TemplateChain(n, n - 4, wang)>>))
  \/ \E defect \in DefectMaps :
       InitRunWith(ReadyEnv(<<DefectChain(4, defect)>>))
  \/ \E lens \in ChainLengths :
       Len(lens) > 1 /\ InitRunWith(ReadyEnv(RegularModels(lens)))
  \/ \E n \in 4..MaxLen : \E h \in 1..n :
       InitRunWith(ReadyEnv(<<HeteroChain(n, h)>>))
  \/ \E ss \in [1..4 -> SSCodes] : \E q \in {0, 2} :
     \E d \in {<<1, "no_CA">>, <<3, "gap">>, <<4, "ca_over_7">>} :
       InitRunWith(ReadyEnv(<<MixedChain(ss, q, d[1], d[2])>>))

\* dssp_file_path=run_dssp(pdbfilename)
CallRunDssp ==
  /\ pc = "start"
  /\ LET r == run_dssp(env)
     IN  /\ files' = files \cup r.files
         /\ raised' = r.raised
         /\ pc' = IF r.raised = NoError THEN "tables" ELSE "raised"
  /\ UNCHANGED <<env, handles, call, structure, seqscheme_dict, dssp_dict, datadict, ci, wi,
                 nturns, out, err, turnlibrary, minturn, log>>

\* the two parsers of the annotator's output; each reads inside "with open"
ParseDsspOutput ==
  /\ pc = "tables"
  /\ "dssp_output" \in files
  /\ seqscheme_dict' = SeqschemeOf(env.content)
  /\ dssp_dict' = DsspOf(env.content)
  /\ pc' = "library"
  /\ UNCHANGED <<env, handles, files, raised, call, structure, datadict, ci, wi,
                 nturns, out, err, turnlibrary, minturn, log>>

\* a plausible slip: the last entry of the library lost
DefineLibraryWithoutLast ==
  /\ pc = "library"
  /\ turnlibrary' = SubSeq(define_turn_library, 1, Len(define_turn_library) - 1)
  /\ pc' = "open"
  /\ UNCHANGED <<env, handles, files, raised, call, structure, seqscheme_dict, dssp_dict,
                 datadict, ci, wi, nturns, out, err, minturn, log>>

\* turnlibrary=define_turn_library()
DefineLibrary ==
  /\ pc = "library"
  /\ turnlibrary' = define_turn_library
  /\ pc' = "open"
  /\ UNCHANGED <<env, handles, files, raised, call, structure, seqscheme_dict, dssp_dict,
                 datadict, ci, wi, nturns, out, err, minturn, log>>

\* handle=gzip.open(pdbfilename, 'rt') or handle=open(pdbfilename, 'r')
OpenStructure ==
  /\ pc = "open"
  /\ handles' = handles \cup {"handle"}
  /\ pc' = "parse"
  /\ UNCHANGED <<env, files, raised, call, structure, seqscheme_dict, dssp_dict,
                 datadict, ci, wi, nturns, out, err, turnlibrary, minturn, log>>

\* the parser chosen by the file name, and structure1=parser.get_structure(...);
\* with neither '.cif' nor '.pdb' in the name, parser is not bound
ParseStructure ==
  /\ pc = "parse"
  /\ IF env.suffix \in {".cif", ".pdb"}
     THEN /\ structure' = StructureOf(env.content)
          /\ pc' = "build"
          /\ raised' = raised
     ELSE /\ structure' = structure
          /\ pc' = "raised"
          /\ raised' = [type |-> "UnboundLocalError", msg |-> <<"parser">>]
  /\ UNCHANGED <<env, handles, files, call, seqscheme_dict, dssp_dict,
                 datadict, ci, wi, nturns, out, err, turnlibrary, minturn, log>>

NextRun ==
  \/ CallRunDssp
  \/ ParseDsspOutput
  \/ DefineLibrary
  \/ OpenStructure
  \/ ParseStructure
  \/ SkipShortChain
  \/ BuildTable
  \/ StartScan
  \/ RejectAtGate
  \/ RejectAtCutoff
  \/ EmitTurn
  \/ NextChain
  \/ Finish

SpecRun == InitRun /\ [][NextRun]_vars

-----------------------------------------------------------------------------
(* The two numerical functions on their own: each call is one step.        *)

\* angles from -MaxSteps to MaxSteps steps of 30 degrees, and the seven
\* angles of the first two medoids
AngleSamples ==
  {k * 3000 : k \in (0 - MaxSteps)..MaxSteps}
  \cup {define_turn_library[1].medoid[j] : j \in 1..7}
  \cup {define_turn_library[2].medoid[j] : j \in 1..7}

\* distances D (in sevenths of a millionth) from below 0 to above 4, the two
\* ends of [0, 4] and their neighbours, and the cutoff
DistanceSamples ==
  {k * 2000000 : k \in (0 - 2)..(MaxSteps + 3)}
  \cup {0 - 1, 0, 1, TURN_DIST_CUTOFF, THETA_MAX_D - 1, THETA_MAX_D, THETA_MAX_D + 1}

InitMath ==
    /\ env = ReadyEnv(<<>>)
    /\ structure = <<>>
    /\ seqscheme_dict = <<>>
    /\ dssp_dict = <<>>
    /\ turnlibrary = <<>>
    /\ datadict = <<>>
    /\ pc = "math"
    /\ ci = 1
    /\ wi = 0
    /\ nturns = 0
    /\ out = <<>>
    /\ err = 0
    /\ minturn = "unbound"
    /\ log = <<>>
    /\ handles = {}
    /\ files = {}
    /\ raised = NoError
    /\ call = NoCall

\* angle_distance(angle1, angle2)
CallAngleDistance ==
  /\ pc = "math"
  /\ \E angle1 \in AngleSamples : \E angle2 \in AngleSamples :
       call' = [fn |-> "angle_distance", args |-> <<angle1, angle2>>, raised |-> FALSE,
                result |-> angle_distance(angle1, angle2)]
  /\ UNCHANGED <<env, handles, files, raised, structure, seqscheme_dict, dssp_dict,
                 datadict, pc, ci, wi, nturns, out, err, turnlibrary, minturn, log>>

\* find_theta_in_degrees(D)
CallFindTheta ==
  /\ pc = "math"
  /\ \E D \in DistanceSamples :
       call' = [fn |-> "find_theta_in_degrees", args |-> <<D>>,
                raised |-> find_theta_in_degrees(D).raised,
                result |-> find_theta_in_degrees(D).theta]
  /\ UNCHANGED <<env, handles, files, raised, structure, seqscheme_dict, dssp_dict,
                 datadict, pc, ci, wi, nturns, out, err, turnlibrary, minturn, log>>

NextMath ==
  \/ CallAngleDistance
  \/ CallFindTheta

SpecMath == InitMath /\ [][NextMath]_vars

-----------------------------------------------------------------------------
(* The two parsers of the annotator's output file. A file is a sequence of  *)
(* lines; a line is "loop_", an item name ("_category.field"), a line of    *)
(* data tokens, the terminator "#", or any other text. tokens is what       *)
(* shlex.split makes of the line.                                           *)

LoopLine == [kind |-> "loop", cat |-> "", field |-> "", tokens |-> <<"loop_">>]

ItemLine(cat, field, text) == [kind |-> "item", cat |-> cat, field |-> field, tokens |-> <<text>>]

DataLine(tokens) == [kind |-> "data", cat |-> "", field |-> "", tokens |-> tokens]

HashLine == [kind |-> "hash", cat |-> "", field |-> "", tokens |-> <<"#">>]

TextLine(text) == [kind |-> "text", cat |-> "", field |-> "", tokens |-> <<text>>]

\* first_data_line before its first assignment
UnboundLine == [kind |-> "unbound", cat |-> "", field |-> "", tokens |-> <<>>]

\* for line in lines: s.startswith("_") ... else: break -- the index of the
\* first line from p on that is not an item name, Len + 1 when there is none
RECURSIVE ItemsEnd(_, _)
ItemsEnd(lines, p) ==
  IF p > Len(lines) THEN p
  ELSE IF lines[p].kind = "item" THEN ItemsEnd(lines, p + 1)
  ELSE p

\* for line in lines: if line.strip() == "#": break -- the index of the first
\* "#" from p on, Len + 1 when there is none
RECURSIVE HashFrom(_, _)
HashFrom(lines, p) ==
  IF p > Len(lines) THEN Len(lines) + 1
  ELSE IF lines[p].kind = "hash" THEN p
  ELSE HashFrom(lines, p + 1)

\* tokens.extend(feed(s)) for the pending lines that are not "" or "#"
RECURSIVE FeedLines(_)
FeedLines(pending_lines) ==
  IF pending_lines = <<>> THEN <<>>
  ELSE (IF Head(pending_lines).kind = "hash" THEN <<>> ELSE Head(pending_lines).tokens)
       \o FeedLines(Tail(pending_lines))

\* row_vals: the fields of the category in a row, a later column of the same
\* name replacing an earlier one
RowVals(item_names, row, cat) ==
  LET cols == {i \in 1..Len(item_names) : item_names[i].cat = cat}
  IN  [f \in {item_names[i].field : i \in cols} |->
         row[CHOOSE i \in cols : item_names[i].field = f
                                 /\ \A k \in cols : item_names[k].field = f => k <= i]]

\* x.get(a) or x.get(b): the first of the two that is there and not empty;
\* there FALSE stands for None
GetOr(row_vals, a, b) ==
  IF a \in DOMAIN row_vals /\ row_vals[a] # "" THEN [there |-> TRUE, v |-> row_vals[a]]
  ELSE IF b \in DOMAIN row_vals THEN [there |-> TRUE, v |-> row_vals[b]]
  ELSE [there |-> FALSE, v |-> ""]

\* key and value of a row of _dssp_struct_summary, or keyed FALSE (continue)
DsspEntry(row_vals) ==
  IF "label_asym_id" \notin DOMAIN row_vals \/ "label_seq_id" \notin DOMAIN row_vals
  THEN [keyed |-> FALSE, key |-> <<>>, value |-> <<>>]
  ELSE [keyed |-> TRUE,
        key   |-> <<row_vals["label_asym_id"], row_vals["label_seq_id"]>>,
        value |-> [f \in DOMAIN row_vals \ {"label_asym_id", "label_seq_id"} |-> row_vals[f]]]

\* key and value of a row of _pdbx_poly_seq_scheme, or keyed FALSE (continue)
SchemeEntry(row_vals) ==
  LET strand == GetOr(row_vals, "pdb_strand_id", "asym_id")
      pdb_strand_id == IF ~strand.there \/ strand.v = "" THEN " " ELSE strand.v
      pdb_seq_num == GetOr(row_vals, "pdb_seq_num", "auth_seq_num")
  IN  IF ~pdb_seq_num.there
      THEN [keyed |-> FALSE, key |-> <<>>, value |-> <<>>]
      ELSE [keyed |-> TRUE,
            key   |-> <<pdb_strand_id, pdb_seq_num.v>>,
            value |-> row_vals]

Entry(cat, row_vals) ==
  IF cat = "_dssp_struct_summary." THEN DsspEntry(row_vals) ELSE SchemeEntry(row_vals)

\* for rstart in range(0, len(tokens), ncols): rows r .. of the truncated token list
RECURSIVE WalkRows(_, _, _, _, _)
WalkRows(result, tokens, item_names, cat, r) ==
  LET ncols == Len(item_names)
  IN  IF r * ncols > Len(tokens) THEN result
      ELSE LET row == SubSeq(tokens, (r - 1) * ncols + 1, r * ncols)
               row_vals == RowVals(item_names, row, cat)
               e == Entry(cat, row_vals)
           IN  IF DOMAIN row_vals = {} \/ ~e.keyed
               THEN WalkRows(result, tokens, item_names, cat, r + 1)
               ELSE WalkRows([k \in DOMAIN result \cup {e.key} |->
                                IF k = e.key THEN e.value ELSE result[k]],
                             tokens, item_names, cat, r + 1)

\* The loop over the lines of the file, from line p on. The two parsers share
\* it: at "loop_" the item names are gathered, and the line that ends them is
\* taken as first_data_line; a loop without items or of another category is
\* skipped by reading on to the next "#" (parse_pdbx_poly_seq_scheme reads
\* first_data_line on the way); a loop of the category has its lines up to the
\* next "#" split into rows.
RECURSIVE ParseLoops(_, _, _, _, _)
ParseLoops(lines, p, first_data_line, result, cat) ==
  IF p > Len(lines) THEN [raised |-> "none", result |-> result]
  ELSE IF lines[p].kind # "loop" THEN ParseLoops(lines, p + 1, first_data_line, result, cat)
  ELSE LET q == ItemsEnd(lines, p + 1)
           item_names == SubSeq(lines, p + 1, q - 1)
           first == IF q <= Len(lines) THEN lines[q] ELSE first_data_line
           h == HashFrom(lines, q + 1)
       IN  IF item_names = <<>> THEN ParseLoops(lines, h + 1, first, result, cat)
           ELSE IF \A i \in 1..Len(item_names) : item_names[i].cat # cat
           THEN IF cat = "_pdbx_poly_seq_scheme." /\ first.kind = "unbound"
                THEN [raised |-> "UnboundLocalError", result |-> result]
                ELSE ParseLoops(lines, h + 1, first, result, cat)
           ELSE IF first.kind = "unbound"
           THEN [raised |-> "UnboundLocalError", result |-> result]
           ELSE LET pending_lines ==
                      <<first>> \o SubSeq(lines, q + 1, IF h <= Len(lines) THEN h ELSE Len(lines))
                    tokens == FeedLines(pending_lines)
                IN  ParseLoops(lines, h + 1, first,
                               WalkRows(result, tokens, item_names, cat, 1), cat)

parse_dssp_struct_summary(lines) ==
  ParseLoops(lines, 1, UnboundLine, <<>>, "_dssp_struct_summary.")

parse_pdbx_poly_seq_scheme(lines) ==
  ParseLoops(lines, 1, UnboundLine, <<>>, "_pdbx_poly_seq_scheme.")

-----------------------------------------------------------------------------
(* The parsers called on annotator files: a header and up to MaxBlocks      *)
(* loops, each closed by "#" (a file cut off inside the item names of its   *)
(* last loop included).                                                     *)

MaxBlocks == 3

SeqIds == <<"1", "2", "3">>

AuthNums == <<"8", "9", "10">>

HeaderLines == <<TextLine("data_1ABC"), HashLine>>

\* a loop of another category with k rows of data
OtherLoop(k) ==
  <<LoopLine, ItemLine("_other.", "x", "_other.x")>>
  \o [j \in 1..k |-> DataLine(<<"foo">>)]
  \o <<HashLine>>

\* the _dssp_struct_summary loop of chain ch with n rows
DsspLoop(ch, n) ==
  <<LoopLine,
    ItemLine("_dssp_struct_summary.", "label_asym_id", "_dssp_struct_summary.label_asym_id"),
    ItemLine("_dssp_struct_summary.", "label_seq_id", "_dssp_struct_summary.label_seq_id"),
    ItemLine("_dssp_struct_summary.", "secondary_structure", "_dssp_struct_summary.secondary_structure")>>
  \o [j \in 1..n |-> DataLine(<<ch, SeqIds[j], "T">>)]
  \o <<HashLine>>

\* the _pdbx_poly_seq_scheme loop with n rows, with the author's chain and
\* number columns (author chain "X" for chain "A") ...
SchemeLoop(n) ==
  <<LoopLine,
    ItemLine("_pdbx_poly_seq_scheme.", "asym_id", "_pdbx_poly_seq_scheme.asym_id"),
    ItemLine("_pdbx_poly_seq_scheme.", "seq_id", "_pdbx_poly_seq_scheme.seq_id"),
    ItemLine("_pdbx_poly_seq_scheme.", "pdb_seq_num", "_pdbx_poly_seq_scheme.pdb_seq_num"),
    ItemLine("_pdbx_poly_seq_scheme.", "pdb_strand_id", "_pdbx_poly_seq_scheme.pdb_strand_id")>>
  \o [j \in 1..n |-> DataLine(<<"A", SeqIds[j], AuthNums[j], "X">>)]
  \o <<HashLine>>

\* ... and as written for a PDB-format input, with auth_seq_num only
SchemeLoopAuth(n) ==
  <<LoopLine,
    ItemLine("_pdbx_poly_seq_scheme.", "asym_id", "_pdbx_poly_seq_scheme.asym_id"),
    ItemLine("_pdbx_poly_seq_scheme.", "seq_id", "_pdbx_poly_seq_scheme.seq_id"),
    ItemLine("_pdbx_poly_seq_scheme.", "auth_seq_num", "_pdbx_poly_seq_scheme.auth_seq_num")>>
  \o [j \in 1..n |-> DataLine(<<"A", SeqIds[j], AuthNums[j]>>)]
  \o <<HashLine>>

\* a loop cut off after its item name
CutLoop == <<LoopLine, ItemLine("_other.", "y", "_other.y")>>

RECURSIVE Concat(_)
Concat(blocks) ==
  IF blocks = <<>> THEN <<>> ELSE Head(blocks) \o Concat(Tail(blocks))

InitParseWith(blocks) ==
    /\ env = [ReadyEnv(<<>>) EXCEPT !.content = HeaderLines \o Concat(blocks)]
    /\ structure = <<>>
    /\ seqscheme_dict = <<>>
    /\ dssp_dict = <<>>
    /\ turnlibrary = <<>>
    /\ datadict = <<>>
    /\ pc = "parse"
    /\ ci = 1
    /\ wi = 0
    /\ nturns = 0
    /\ out = <<>>
    /\ err = 0
    /\ minturn = "unbound"
    /\ log = <<>>
    /\ handles = {}
    /\ files = {"dssp_output"}
    /\ raised = NoError
    /\ call = NoCall

InitParse ==
  \E m \in 1..MaxBlocks :
    \E blocks \in [1..m -> {"other0", "other1", "dsspA", "dsspB", "scheme", "auth", "cut"}] :
      InitParseWith([j \in 1..m |->
        CASE blocks[j] = "other0" -> OtherLoop(0)
          [] blocks[j] = "other1" -> OtherLoop(1)
          [] blocks[j] = "dsspA"  -> DsspLoop("A", 1)
          [] blocks[j] = "dsspB"  -> DsspLoop("B", 2)
          [] blocks[j] = "scheme" -> SchemeLoop(2)
          [] blocks[j] = "auth"   -> SchemeLoopAuth(1)
          [] blocks[j] = "cut"    -> IF j = m THEN CutLoop ELSE OtherLoop(2)])

\* dssp_dict = parse_dssp_struct_summary(dssp_file_path)
CallParseDssp ==
  /\ pc = "parse"
  /\ call' = [fn |-> "parse_dssp_struct_summary", args |-> <<"dssp_output">>,
              raised |-> parse_dssp_struct_summary(env.content).raised # "none",
              result |-> parse_dssp_struct_summary(env.content).result]
  /\ UNCHANGED <<env, handles, files, raised, structure, seqscheme_dict, dssp_dict,
                 datadict, pc, ci, wi, nturns, out, err, turnlibrary, minturn, log>>

\* seqscheme_dict = parse_pdbx_poly_seq_scheme(dssp_file_path)
CallParseSeqScheme ==
  /\ pc = "parse"
  /\ call' = [fn |-> "parse_pdbx_poly_seq_scheme", args |-> <<"dssp_output">>,
              raised |-> parse_pdbx_poly_seq_scheme(env.content).raised # "none",
              result |-> parse_pdbx_poly_seq_scheme(env.content).result]
  /\ UNCHANGED <<env, handles, files, raised, structure, seqscheme_dict, dssp_dict,
                 datadict, pc, ci, wi, nturns, out, err, turnlibrary, minturn, log>>

NextParse ==
  \/ CallParseDssp
  \/ CallParseSeqScheme

SpecParse == InitParse /\ [][NextParse]_vars

-----------------------------------------------------------------------------
(* Properties                                                              *)

\* the window a log entry is about, and the residues it was built from
LogWindow(e) == WindowAt(datadict[e.chain].rows, e.i)

LogResidues(e) ==
  LET aa == aa_residues(structure[datadict[e.chain].chain])
  IN  <<aa[e.i + 1], aa[e.i + 2], aa[e.i + 3], aa[e.i + 4]>>

\* The entry of the window the scan has just dealt with. Every window is that
\* window in the state its scan step leads to, and log and out only grow, so what
\* holds of this entry in every reachable state holds of every window scanned.
LogEntries == IF Len(log) = 0 THEN {} ELSE {log[Len(log)]}

\* the window was skipped: no cluster was scored and no line was printed
Rejected(e) == ~e.scored /\ e.turn = 0

\* a line was printed for the window, and it is line e.turn of the output
Emitted(e) ==
  /\ e.turn > 0
  /\ e.turn <= Len(out)
  /\ out[e.turn].turn = e.turn
  /\ out[e.turn].angles = WindowAngles(LogWindow(e))

\* the score of a window against each medoid, from the definition in the claims:
\* the sum over the seven angles of 2(1 - cos(difference)), divided by 7
RECURSIVE SumDist(_, _, _)
SumDist(angles, medoid, j) ==
  IF j = 0 THEN 0
  ELSE SumDist(angles, medoid, j - 1) + 2 * (ONE - Cos6(angles[j] - medoid[j]))

Scores(angles) ==
  [t \in 1..Len(define_turn_library) |-> SumDist(angles, define_turn_library[t].medoid, 7)]

MinScore(sc) == CHOOSE d \in {sc[t] : t \in DOMAIN sc} : \A t \in DOMAIN sc : sc[t] >= d

FirstMin(sc) ==
  CHOOSE t \in DOMAIN sc : sc[t] = MinScore(sc) /\ \A u \in 1..(t - 1) : sc[u] > sc[t]

\* C1: a window that passes the gate is printed if and only if the least of its
\* 18 mean distances is <= 0.2359; otherwise nothing is printed and no error is
\* raised. The lines printed are exactly those of the accepted windows.
C1_CutoffDecidesEmission ==
  /\ pc # "error"
  /\ Len(out) = Cardinality({k \in 1..Len(log) : log[k].turn > 0})
  /\ \A e \in LogEntries :
       e.gate = "pass" =>
         LET least == MinScore(Scores(WindowAngles(LogWindow(e))))
         IN  /\ least <= TURN_DIST_CUTOFF => Emitted(e)
             /\ least > TURN_DIST_CUTOFF => e.turn = 0

\* a window exactly on the cutoff was printed, and another one was scored and dropped
C1_Witness ==
  /\ \E k \in 1..Len(log) :
       /\ log[k].gate = "pass"
       /\ MinScore(Scores(WindowAngles(LogWindow(log[k])))) = TURN_DIST_CUTOFF
       /\ Emitted(log[k])
  /\ \E k \in 1..Len(log) : log[k].gate = "pass" /\ log[k].scored /\ log[k].turn = 0

\* C2: the type of a scored window is the first entry of the library, in insertion
\* order, whose score (the 7 angle distances added up and divided by 7) is the
\* least of the 18 scores; it is the type printed for the window.
C2_FirstNearestCluster ==
  \A e \in LogEntries :
    e.scored =>
      LET sc == Scores(WindowAngles(LogWindow(e)))
          first == define_turn_library[FirstMin(sc)]
      IN  /\ e.minD = MinScore(sc)
          /\ e.minturn = first.name
          /\ e.turn > 0 => out[e.turn].type = first.name /\ out[e.turn].prevname = first.prev_name

\* a printed window with two clusters at the least score, typed as the earlier one
C2_Witness ==
  \E e \in LogEntries :
    LET sc == Scores(WindowAngles(LogWindow(e)))
    IN  /\ Emitted(e)
        /\ \E t, u \in DOMAIN sc : t < u /\ sc[t] = MinScore(sc) /\ sc[u] = MinScore(sc)
                                    /\ out[e.turn].type = define_turn_library[t].name

\* C3: a window with the sentinel in any of its seven angles is never scored
\* (angle_distance is not called on it) and never printed.
C3_SentinelNeverScored ==
  \A e \in LogEntries :
    (\E j \in 1..7 : WindowAngles(LogWindow(e))[j] = SENTINEL) => Rejected(e)

\* a window stopped by the sentinel test alone: the sentinel is in psi3 and omega4
\* only, both CA atoms are there and the annotation does not stop it
C3_Witness ==
  \E e \in LogEntries :
    LET a == WindowAngles(LogWindow(e))
    IN  /\ e.gate = "sentinel"
        /\ a[6] = SENTINEL /\ a[7] = SENTINEL
        /\ \A j \in 1..5 : a[j] # SENTINEL
        /\ Rejected(e)

\* the window with other annotation: secondary structure s, markers m
Relabelled(w, s, m) ==
  [j \in 1..4 |-> [w[j] EXCEPT !.dssp_ss = s[j], !.three10 = m[j]]]

ForbiddenStrings ==
  {<<"H", "G", "G", "G">>, <<"G", "G", "G", "H">>, <<"G", "G", "G", "G">>}

\* C4: a window annotated HGGG, GGGH or GGGG is rejected; and whatever the
\* geometry of a window is, it is rejected when annotated with one of the three,
\* with its own markers or with "3" in all four.
C4_ForbiddenStringsRejected ==
  \A e \in LogEntries :
    LET w == LogWindow(e)
    IN  /\ dssp_string(w) \in ForbiddenStrings => Rejected(e)
        /\ \A s \in ForbiddenStrings :
             /\ Gate(Relabelled(w, s, three10string(w))) # "pass"
             /\ Gate(Relabelled(w, s, <<"3", "3", "3", "3">>)) # "pass"

\* GGGH with the marker "3" in the window and regular geometry, stopped at the strings
C4_Witness ==
  \E e \in LogEntries :
    LET w == LogWindow(e)
    IN  /\ dssp_string(w) = <<"G", "G", "G", "H">>
        /\ \E j \in 1..4 : three10string(w)[j] = "3"
        /\ AnglesResolved(w)
        /\ e.gate = "ss_string"
        /\ Rejected(e)

\* C5: a window whose second or third residue is annotated H or E is rejected, and
\* no printed line has H or E at position 2 or 3 of its secondary-structure string.
C5_MiddleResiduesNotRegular ==
  /\ \A e \in LogEntries :
       LET w == LogWindow(e)
       IN  (w[2].dssp_ss \in {"H", "E"} \/ w[3].dssp_ss \in {"H", "E"}) => Rejected(e)
  /\ \A n \in 1..Len(out) :
       out[n].dssp[2] \notin {"H", "E"} /\ out[n].dssp[3] \notin {"H", "E"}

\* a window stopped only because its third residue is a strand residue
C5_Witness ==
  \E e \in LogEntries :
    LET w == LogWindow(e)
    IN  /\ w[3].dssp_ss = "E"
        /\ w[2].dssp_ss \notin {"H", "E"}
        /\ e.gate = "ss_middle"
        /\ Rejected(e)

HasGGG(w) == StartsWithGGG(dssp_string(w)) \/ EndsWithGGG(dssp_string(w))

HasMarker3(w) == \E j \in 1..4 : w[j].three10 = "3"

\* C6: a window whose string starts or ends with GGG is rejected when none of its
\* four markers is "3", and is not stopped by the marker test when any one of the
\* four is "3", wherever it is; the gate's answer for a window whose string neither
\* starts nor ends with GGG is the same for every choice of "." and "3" markers.
C6_Marker3AnywhereInWindow ==
  \A e \in LogEntries :
    LET w == LogWindow(e)
    IN  /\ HasGGG(w) /\ ~HasMarker3(w) => Rejected(e)
        /\ HasGGG(w) /\ HasMarker3(w) => e.gate # "three10"
        /\ ~HasGGG(w) =>
             \A m \in [1..4 -> {".", "3"}] :
               Gate(Relabelled(w, dssp_string(w), m)) = e.gate

\* TGGG whose only "3" is the marker of the first residue, outside the GGG run,
\* passed the gate and was printed
C6_Witness ==
  \E e \in LogEntries :
    LET w == LogWindow(e)
    IN  /\ dssp_string(w) = <<"T", "G", "G", "G">>
        /\ w[1].three10 = "3"
        /\ \A j \in 2..4 : w[j].three10 # "3"
        /\ e.gate = "pass"
        /\ Emitted(e)

\* the square of the CA1-CA4 distance of the window's residues
CaDist2(res) ==
  LET d == VecSub(res[1].ca, res[4].ca) IN d[1] * d[1] + d[2] * d[2] + d[3] * d[3]

\* C7: a window is rejected when its first or fourth residue has no CA atom and
\* when the CA1-CA4 distance is greater than 7.0; it is stopped by the distance
\* test only then (7.0 itself passes); every printed distance is <= 7.0.
C7_CaDistanceAtMost7 ==
  /\ \A e \in LogEntries :
       LET res == LogResidues(e)
       IN  /\ ("CA" \notin res[1].atoms \/ "CA" \notin res[4].atoms) => Rejected(e)
           /\ ("CA" \in res[1].atoms /\ "CA" \in res[4].atoms) =>
                /\ CaDist2(res) > CA_CUTOFF * CA_CUTOFF => Rejected(e)
                /\ e.gate = "ca_distance" => CaDist2(res) > CA_CUTOFF * CA_CUTOFF
  /\ \A n \in 1..Len(out) : out[n].ca1_ca4 <= CA_CUTOFF

\* a printed window whose CA1-CA4 distance is exactly 7.0
C7_Witness ==
  \E e \in LogEntries :
    /\ "CA" \in LogResidues(e)[1].atoms /\ "CA" \in LogResidues(e)[4].atoms
    /\ CaDist2(LogResidues(e)) = CA_CUTOFF * CA_CUTOFF
    /\ Emitted(e)
    /\ out[e.turn].ca1_ca4 = CA_CUTOFF

\* the backbone atoms each angle needs, and the numbering it needs
Consecutive(r1, r2) == r2.seq = r1.seq + 1

RealAngle(a) == a \in -18000..18000

\* C8: in every table, phi, psi and omega of a residue that has the neighbour the
\* angle is about are the sentinel exactly when an atom is missing (phi: prev C,
\* curr N CA C; psi: curr N CA C, next N; omega: prev CA C, curr N CA) or the
\* second residue's sequence number is not the first's plus 1; otherwise they are
\* the angle of the four atoms.
C8_SentinelIffPreconditionFails ==
  \A d \in 1..Len(datadict) :
    LET aa == aa_residues(structure[datadict[d].chain])
        rows == datadict[d].rows
    IN  \A i \in 1..Len(rows) :
          /\ i > 1 =>
               LET phi_ok == /\ "C" \in aa[i - 1].atoms
                             /\ {"N", "CA", "C"} \subseteq aa[i].atoms
                             /\ Consecutive(aa[i - 1], aa[i])
                   omega_ok == /\ {"CA", "C"} \subseteq aa[i - 1].atoms
                               /\ {"N", "CA"} \subseteq aa[i].atoms
                               /\ Consecutive(aa[i - 1], aa[i])
               IN  /\ (rows[i].phi = SENTINEL) <=> ~phi_ok
                   /\ phi_ok => RealAngle(rows[i].phi) /\ rows[i].phi = aa[i].gphi
                   /\ (rows[i].omega = SENTINEL) <=> ~omega_ok
                   /\ omega_ok => RealAngle(rows[i].omega) /\ rows[i].omega = aa[i].gomega
          /\ i < Len(rows) =>
               LET psi_ok == /\ {"N", "CA", "C"} \subseteq aa[i].atoms
                             /\ "N" \in aa[i + 1].atoms
                             /\ Consecutive(aa[i], aa[i + 1])
               IN  /\ (rows[i].psi = SENTINEL) <=> ~psi_ok
                   /\ psi_ok => RealAngle(rows[i].psi) /\ rows[i].psi = aa[i].gpsi

\* a table with two residues next to each other in the list, all atoms there, whose
\* numbers are not consecutive: psi of the first and phi, omega of the second are
\* the sentinel, while another residue of the table has all three angles
C8_Witness ==
  \E d \in 1..Len(datadict) :
    LET aa == aa_residues(structure[datadict[d].chain])
        rows == datadict[d].rows
    IN  /\ \E i \in 2..Len(rows) :
             /\ aa[i - 1].atoms = AllAtoms /\ aa[i].atoms = AllAtoms
             /\ ~Consecutive(aa[i - 1], aa[i])
             /\ rows[i - 1].psi = SENTINEL
             /\ rows[i].phi = SENTINEL /\ rows[i].omega = SENTINEL
        /\ \E i \in 2..(Len(rows) - 1) :
             RealAngle(rows[i].phi) /\ RealAngle(rows[i].psi) /\ RealAngle(rows[i].omega)

\* the numbers of the window's residues are n, n+1, n+2, n+3
NoGap(res) == \A j \in 1..3 : Consecutive(res[j], res[j + 1])

\* C9: a window with a gap in the numbering between two of its neighbouring
\* residues has the sentinel among its seven angles and is rejected; the residues
\* of a printed window are numbered n, n+1, n+2, n+3, and the last residue number
\* printed is the number of its fourth residue.
C9_PrintedWindowsAreContiguous ==
  \A e \in LogEntries :
    LET res == LogResidues(e)
    IN  /\ ~NoGap(res) =>
             /\ \E j \in 1..7 : WindowAngles(LogWindow(e))[j] = SENTINEL
             /\ Rejected(e)
        /\ e.turn > 0 =>
             /\ NoGap(res)
             /\ out[e.turn].resnum1 = res[1].seq
             /\ out[e.turn].resnum4 = res[4].seq

\* a window with all atoms whose second residue does not follow the first in the
\* numbering, stopped by the sentinel test
C9_Witness ==
  \E e \in LogEntries :
    LET res == LogResidues(e)
    IN  /\ \A j \in 1..4 : res[j].atoms = AllAtoms
        /\ ~Consecutive(res[1], res[2])
        /\ Consecutive(res[2], res[3]) /\ Consecutive(res[3], res[4])
        /\ e.gate = "sentinel"
        /\ Rejected(e)

\* the angles are those of the medoid, modulo 360 degrees
AtMedoid(angles, medoid) == \A j \in 1..7 : (angles[j] - medoid[j]) % 36000 = 0

\* C10: for each of the 18 entries of the library, a window that passes the gate
\* with the seven angles of its medoid is at distance 0, gets that entry's type
\* (no earlier entry is at distance 0 as well) and is printed with it.
C10_MedoidsClassifiedAsThemselves ==
     \A e \in LogEntries :
       \A t \in 1..Len(turnlibrary) :
         (e.gate = "pass" /\ AtMedoid(WindowAngles(LogWindow(e)), turnlibrary[t].medoid)) =>
           /\ e.minD = 0
           /\ e.minturn = turnlibrary[t].name
           /\ Emitted(e)
           /\ out[e.turn].type = turnlibrary[t].name
           /\ out[e.turn].minD = 0

\* the window with the angles of the last medoid of the library, printed as cisDP
C10_Witness ==
  \E e \in LogEntries :
    /\ AtMedoid(WindowAngles(LogWindow(e)), turnlibrary[Len(turnlibrary)].medoid)
    /\ e.gate = "pass"
    /\ Emitted(e)
    /\ out[e.turn].type = "cisDP"
    /\ out[e.turn].minD = 0

-----------------------------------------------------------------------------
(* The numerical functions (SpecMath)                                      *)

\* C11: angle_distance is symmetric in its two angles, is 0 for two identical
\* angles (and for two angles a whole number of turns apart), is 4 for two
\* angles 180 degrees apart, does not change when either angle is shifted by
\* 360 degrees, and always lies in [0, 4].
C11_AngleDistanceProperties ==
  call.fn = "angle_distance" =>
    LET angle1 == call.args[1]
        angle2 == call.args[2]
        distance == call.result
    IN  /\ distance = angle_distance(angle2, angle1)
        /\ (angle1 = angle2 => distance = 0)
        /\ ((angle1 - angle2) % 36000 = 0 => distance = 0)
        /\ ((angle1 - angle2 = 18000 \/ angle2 - angle1 = 18000) => distance = 4 * ONE)
        /\ angle_distance(angle1 + 36000, angle2) = distance
        /\ angle_distance(angle1 - 36000, angle2) = distance
        /\ angle_distance(angle1, angle2 + 36000) = distance
        /\ angle_distance(angle1, angle2 - 36000) = distance
        /\ distance >= 0
        /\ distance <= 4 * ONE

\* a call with two different angles 180 degrees apart has returned 4, and it
\* is not the only value the function takes
C11_Witness ==
  /\ call.fn = "angle_distance"
  /\ call.args[1] - call.args[2] = 18000
  /\ call.args[1] # 0 /\ call.args[2] # 0
  /\ call.result = 4 * ONE
  /\ angle_distance(call.args[1], call.args[2] + 3000) \in 1..(4 * ONE - 1)

\* C12: find_theta_in_degrees raises (ValueError) for every D < 0 and every
\* D > 4, and returns an angle, between 0 and 180 degrees, for every D in
\* [0, 4], the two ends included (180 degrees for D = 4).
C12_FindThetaDomain ==
  call.fn = "find_theta_in_degrees" =>
    LET D == call.args[1]
    IN  /\ call.raised <=> (D < 0 \/ D > 4 * 7 * ONE)
        /\ ~call.raised => call.result \in 0..18000
        /\ D = 0 => ~call.raised
        /\ D = 4 * 7 * ONE => (~call.raised /\ call.result = 18000)

\* the call with D = 4 has returned 180 degrees
C12_Witness ==
  /\ call.fn = "find_theta_in_degrees"
  /\ call.args[1] = 4 * 7 * ONE
  /\ ~call.raised
  /\ call.result = 18000

-----------------------------------------------------------------------------
(* The scan driver (Spec)                                                   *)

\* the number of windows of the chains of datadict before chain c
RECURSIVE WindowsBefore(_)
WindowsBefore(c) ==
  IF c <= 1 THEN 0 ELSE WindowsBefore(c - 1) + (Len(datadict[c - 1].rows) - 3)

\* the chains of the structure that have a table, in the order of the table
TableChains == [c \in 1..Len(datadict) |-> datadict[c].chain]

\* the chains of the structure with at least 4 amino-acid residues, ascending
RECURSIVE LongChains(_)
LongChains(c) ==
  IF c = 0 THEN <<>>
  ELSE IF Len(SelectSeq(structure[c].residues, LAMBDA r : r.aa)) >= 4
       THEN Append(LongChains(c - 1), c)
       ELSE LongChains(c - 1)

\* C13: for a chain with n amino-acid residues the scan visits the start
\* indices 0 .. n-4, each once and in ascending order: the k-th window visited
\* is the k-th of (chain, 0), (chain, 1), .. over the chains of the table; a
\* chain with exactly 4 residues gives exactly one window; a chain with fewer
\* than 4 gives none and has no entry in the table.
C13_ScanVisitsEveryStartOnce ==
  /\ pc \in {"scan", "done"} =>
       /\ TableChains = LongChains(Len(structure))
       /\ \A c \in 1..Len(datadict) :
            Len(datadict[c].rows) =
              Len(SelectSeq(structure[datadict[c].chain].residues, LAMBDA r : r.aa))
  /\ log # <<>> =>
       LET k == Len(log)
           e == log[k]
       IN  /\ e.i >= 0
           /\ e.i <= Len(datadict[e.chain].rows) - 4
           /\ k = WindowsBefore(e.chain) + e.i + 1
  /\ pc = "done" =>
       /\ Len(log) = WindowsBefore(Len(datadict) + 1)
       /\ \A c \in 1..Len(datadict) :
            Cardinality({k \in 1..Len(log) : log[k].chain = c}) = Len(datadict[c].rows) - 3

\* a run over a chain of exactly 4 residues and a chain of fewer: one window
\* was visited, and the short chain has no table
C13_Witness ==
  /\ pc = "done"
  /\ Len(structure) = 2
  /\ Len(structure[1].residues) < 4
  /\ Len(structure[2].residues) = 4
  /\ Len(datadict) = 1
  /\ datadict[1].chain = 2
  /\ Len(log) = 1
  /\ log[1].i = 0

\* C14: the turn index of the records printed is strictly increasing over the
\* whole run: it starts at 1, goes up by one with every record, and is not
\* started again when the scan moves to the next chain or the next model.
C14_TurnIndexStrictlyIncreasing ==
  /\ \A a \in 1..Len(out) : \A b \in 1..Len(out) : a < b => out[a].turn < out[b].turn
  /\ \A a \in 1..Len(out) : out[a].turn = a
  /\ nturns = Len(out)

\* two records following each other that come from chains of two different
\* models, the second with the larger index
C14_Witness ==
  \E k \in 1..Len(log) : \E m \in 1..Len(log) :
    /\ k < m
    /\ log[k].turn > 0
    /\ log[m].turn = log[k].turn + 1
    /\ log[k].chain # log[m].chain
    /\ structure[datadict[log[k].chain].chain].model # structure[datadict[log[m].chain].chain].model
    /\ out[log[m].turn].turn > out[log[k].turn].turn

\* what happens to a window, from its four rows alone
Outcome(w) ==
  LET near == Nearest(define_turn_library, WindowAngles(w), "unbound")
  IN  IF Gate(w) # "pass" THEN [emitted |-> FALSE, type |-> "none"]
      ELSE IF near.minD <= TURN_DIST_CUTOFF THEN [emitted |-> TRUE, type |-> near.minturn]
      ELSE [emitted |-> FALSE, type |-> "none"]

\* C15: there is no overlap suppression. Whether the window at start index i
\* is printed, and its type, is a function of the four rows i .. i+3 alone:
\* not of what was printed for the windows before it, nor of the counter or
\* of minturn. Two overlapping windows that both pass are both printed.
C15_OutcomeDependsOnWindowOnly ==
  \A e \in LogEntries :
    LET o == Outcome(LogWindow(e))
    IN  /\ (e.turn > 0) <=> o.emitted
        /\ e.turn > 0 => /\ e.turn <= Len(out)
                         /\ out[e.turn].type = o.type
                         /\ out[e.turn].resnum1 = Int_(LogWindow(e)[1].auth_key[2])

\* two windows of one chain that share three residues have both been printed
C15_Witness ==
  \E k \in 1..Len(log) :
    /\ k + 1 <= Len(log)
    /\ log[k].chain = log[k + 1].chain
    /\ log[k + 1].i = log[k].i + 1
    /\ log[k].turn > 0
    /\ log[k + 1].turn = log[k].turn + 1
    /\ Len(out) >= log[k + 1].turn
    /\ out[log[k].turn].type = out[log[k + 1].turn].type

\* the step deals with a window and prints nothing for it
RejectionStep ==
  /\ Len(log') = Len(log) + 1
  /\ log'[Len(log')].turn = 0

\* C16: a step that rejects a window, at the gate or at the cutoff, raises no
\* error and leaves the turn counter, the output, the residue table and the
\* turn library as they were; the scan is then at the next start index of the
\* same chain.
C16_RejectionHasNoEffect ==
  [][RejectionStep =>
       /\ nturns' = nturns
       /\ out' = out
       /\ datadict' = datadict
       /\ turnlibrary' = turnlibrary
       /\ raised' = raised
       /\ pc = "scan" /\ pc' = "scan"
       /\ ci' = ci
       /\ wi' = wi + 1]_vars

\* a window was rejected and the scan went on: the window after it was
\* printed, with the index 1
C16_Witness ==
  \E k \in 1..Len(log) :
    /\ k + 1 <= Len(log)
    /\ log[k].turn = 0
    /\ log[k + 1].chain = log[k].chain
    /\ log[k + 1].i = log[k].i + 1
    /\ log[k + 1].turn = 1
    /\ Len(out) = 1
    /\ nturns = 1

-----------------------------------------------------------------------------
(* Residues without annotation (Spec)                                       *)

\* the key of the annotator's row of a residue that has a correspondence entry
LabelOf(auth_key) == <<seqscheme_dict[auth_key].asym_id, seqscheme_dict[auth_key].seq_id>>

NoCorrespondence(row) == row.auth_key \notin DOMAIN seqscheme_dict

NoAnnotatorRow(row) ==
  ~NoCorrespondence(row) /\ LabelOf(row.auth_key) \notin DOMAIN dssp_dict

DotCode(row) ==
  /\ ~NoCorrespondence(row)
  /\ ~NoAnnotatorRow(row)
  /\ dssp_dict[LabelOf(row.auth_key)].secondary_structure = "."

\* C17: a residue that has no entry in the correspondence table, or whose key
\* has no annotator row, or whose code is '.', is recorded with the code 'C';
\* every other residue with the code of its row. The run goes on: the residue
\* is in the table, the windows that contain it are gated and classified like
\* any other, and no row and no printed record holds '.' as a code.
C17_MissingAnnotationIsCoil ==
  /\ pc # "error"
  /\ raised = NoError
  /\ \A c \in 1..Len(datadict) :
       /\ Len(datadict[c].rows) =
            Len(SelectSeq(structure[datadict[c].chain].residues, LAMBDA r : r.aa))
       /\ \A j \in 1..Len(datadict[c].rows) :
            LET row == datadict[c].rows[j]
            IN  /\ row.dssp_ss # "."
                /\ IF NoCorrespondence(row) \/ NoAnnotatorRow(row) \/ DotCode(row)
                   THEN row.dssp_ss = "C"
                   ELSE row.dssp_ss = dssp_dict[LabelOf(row.auth_key)].secondary_structure
  /\ \A e \in LogEntries :
       /\ e.gate = Gate(LogWindow(e))
       /\ (e.turn > 0) <=> Outcome(LogWindow(e)).emitted
       /\ e.turn > 0 => \A j \in 1..4 : out[e.turn].dssp[j] # "."

\* a window was printed whose first three residues are the three cases, one
\* each, all with the code 'C', and the one warning was written
C17_Witness ==
  \E e \in LogEntries :
    /\ e.turn > 0
    /\ NoCorrespondence(LogWindow(e)[1])
    /\ NoAnnotatorRow(LogWindow(e)[2])
    /\ DotCode(LogWindow(e)[3])
    /\ out[e.turn].dssp = <<"C", "C", "C", "T">>
    /\ err = 1

-----------------------------------------------------------------------------
(* The run from its first line (SpecRun)                                    *)

\* C18: a failure of the annotator is fatal and reaches the caller of main:
\* when the annotator exits with a non-zero status run_dssp raises an error
\* whose message carries the annotator's stderr, when the structure file does
\* not exist it raises FileNotFoundError; main catches neither, so the run has
\* ended with the exception and without a table, a classified window or a
\* printed record.
C18_CollaboratorFailureIsFatal ==
  /\ pc # "start" =>
       /\ ~env.is_file => raised.type = "FileNotFoundError"
       /\ (env.is_file /\ env.exe_is_file /\ env.returncode # 0) =>
            /\ raised.type = "RuntimeError"
            /\ \E j \in 1..Len(raised.msg) : raised.msg[j] = env.stderr
  /\ raised # NoError =>
       /\ pc = "raised"
       /\ datadict = <<>>
       /\ log = <<>>
       /\ out = <<>>
       /\ nturns = 0

\* the annotator has failed on a structure that has a chain long enough for a
\* window: the run has ended with the error that holds what it wrote to stderr
C18_Witness ==
  /\ pc = "raised"
  /\ raised = [type |-> "RuntimeError", msg |-> <<"Error running DSSP: ", "unable to read">>]
  /\ env.returncode # 0
  /\ \E c \in 1..Len(env.content) : Len(env.content[c].residues) >= 4
  /\ log = <<>>
  /\ out = <<>>

\* C19: what the run opens it releases after reading: once the structure has
\* been parsed the structure-file handle is closed, and when main ends no file
\* object the run has opened is still open.
C19_HandlesReleasedAfterReading ==
  /\ pc \in {"build", "scan", "done"} => "handle" \notin handles
  /\ pc = "done" => handles = {}

\* the codes of the 18 turn types, in the order of the library
TypeCodes ==
  <<"AD", "Pd", "Pa", "ad", "AB1", "AZ", "AB2", "pD", "AG", "BcisP", "dD", "PcisD",
    "dN", "Dd", "PcisP", "cisDA", "pG", "cisDP">>

LibraryBuilt == pc \in {"open", "parse", "build", "scan", "done", "error"}

\* C20: the library has exactly 18 entries with 18 different type codes; it is
\* built once in a run, before the structure is read, and from then on no
\* entry is added, removed, moved or changed: every window is scored against
\* the same 18 medoids in the same order.
C20_LibraryIsFixed ==
  /\ [](LibraryBuilt =>
          /\ Len(turnlibrary) = 18
          /\ Cardinality({turnlibrary[t].name : t \in 1..Len(turnlibrary)}) = 18
          /\ [t \in 1..Len(turnlibrary) |-> turnlibrary[t].name] = TypeCodes
          /\ \A e \in LogEntries : e.scored => \E t \in 1..18 : turnlibrary[t].name = e.minturn)
  /\ [][(turnlibrary # <<>> => turnlibrary' = turnlibrary)
        /\ (turnlibrary' # turnlibrary => (pc = "library" /\ turnlibrary = <<>>))]_vars

\* a run has ended in which a window was given the type of the last entry of
\* the library, and the library is the one that was built
C20_Witness ==
  /\ pc = "done"
  /\ Len(turnlibrary) = 18
  /\ turnlibrary[18].name = "cisDP"
  /\ \E k \in 1..Len(log) : log[k].scored /\ log[k].turn > 0 /\ log[k].minturn = "cisDP"

-----------------------------------------------------------------------------
(* Termination and the size of the scan (SpecFair)                          *)

\* the sum over the first c chains of the structure of max(0, n - 3), n the
\* number of amino-acid residues of the chain
RECURSIVE TotalWindows(_)
TotalWindows(c) ==
  IF c = 0 THEN 0
  ELSE LET n == Len(SelectSeq(structure[c].residues, LAMBDA r : r.aa))
       IN  TotalWindows(c - 1) + (IF n > 3 THEN n - 3 ELSE 0)

\* the window the scan has just dealt with was not dealt with before
LastPositionIsNew ==
  \A k \in 1..(Len(log) - 1) :
    <<log[k].chain, log[k].i>> # <<log[Len(log)].chain, log[Len(log)].i>>

\* C21: the scan always terminates. Once it has started it reaches the end of
\* main; the gate has then been evaluated once for each of the sum over the
\* chains of max(0, n - 3) windows, the clusters scored at most 18 times that
\* often, and at no time has a window position been dealt with twice.
C21_ScanTerminates ==
  /\ (pc = "scan") ~> (pc = "done")
  /\ [](pc \in {"scan", "done"} =>
          /\ LastPositionIsNew
          /\ Len(log) <= TotalWindows(Len(structure)))
  /\ [](pc = "done" =>
          /\ Len(log) = TotalWindows(Len(structure))
          /\ Len(turnlibrary) * Cardinality({k \in 1..Len(log) : log[k].scored})
               <= 18 * TotalWindows(Len(structure)))

\* a run has ended over two chains, one of them too short for a window: the
\* scan has dealt with the two or more windows of the other, and with no more
C21_Witness ==
  /\ pc = "done"
  /\ Len(structure) >= 2
  /\ Len(datadict) < Len(structure)
  /\ Len(log) = TotalWindows(Len(structure))
  /\ Len(log) >= 2

-----------------------------------------------------------------------------
(* The gate, the windows and the records of a whole run (SpecRun)           *)

\* The gate with its checks in the order of the specification: CA presence,
\* CA distance, forbidden strings, middle residues, 3-10 marker, sentinel
\* angles. The distance of two CA atoms one of which is missing is an error.
GateSpecOrder(w) ==
  IF w[1].CAcoor = None THEN "no_CA1"
  ELSE IF w[4].CAcoor = None THEN "no_CA4"
  ELSE IF w[1].CAcoor = None \/ w[4].CAcoor = None THEN "TypeError"
  ELSE IF VecNorm(VecSub(w[1].CAcoor, w[4].CAcoor)) > CA_CUTOFF THEN "ca_distance"
  ELSE IF dssp_string(w) \in ForbiddenStrings THEN "ss_string"
  ELSE IF w[2].dssp_ss \in {"H", "E"} \/ w[3].dssp_ss \in {"H", "E"} THEN "ss_middle"
  ELSE IF HasGGG(w) /\ ~HasMarker3(w) THEN "three10"
  ELSE IF \E j \in 1..7 : WindowAngles(w)[j] = SENTINEL THEN "sentinel"
  ELSE "pass"

\* C22: the outcome of the gate does not depend on the order of its checks:
\* for every window scanned, the checks in the order of the code (CA distance
\* last) and in the order of the specification (CA distance second) both
\* accept or both reject, and neither order raises an error.
C22_GateOrderIrrelevant ==
  \A e \in LogEntries :
    /\ e.gate # "TypeError"
    /\ GateSpecOrder(LogWindow(e)) # "TypeError"
    /\ (e.gate = "pass") <=> (GateSpecOrder(LogWindow(e)) = "pass")
    /\ e.scored <=> (GateSpecOrder(LogWindow(e)) = "pass")

\* a window that fails two checks, and a different one first in each order
C22_Witness ==
  \E e \in LogEntries :
    /\ e.gate = "ss_string"
    /\ GateSpecOrder(LogWindow(e)) = "ca_distance"
    /\ ~e.scored

\* the amino-acid residues of chain c of the structure, in their order
AminoAcids(c) == SelectSeq(structure[c].residues, LAMBDA r : r.aa)

\* C23: every window scanned is made of four residues that follow each other
\* in the list of the amino-acid residues of one chain of one model: its four
\* rows are the rows of residues i+1 .. i+4 of that list, they carry the id and
\* the model of that one chain, and none of them is a residue for which is_aa
\* is false.
C23_WindowWithinOneChain ==
  \A e \in LogEntries :
    LET c  == datadict[e.chain].chain
        aa == AminoAcids(c)
        w  == LogWindow(e)
    IN  /\ e.i >= 0
        /\ e.i + 4 <= Len(aa)
        /\ \A j \in 1..4 :
             /\ w[j].resnum = aa[e.i + j].seq
             /\ w[j].resname = aa[e.i + j].resname
             /\ w[j].chain_id = structure[c].id
             /\ w[j].model = structure[c].model
             /\ w[j].auth_key = <<structure[c].id, Str(aa[e.i + j].seq)>>
             /\ \E k \in 1..Len(structure[c].residues) :
                  /\ structure[c].residues[k].aa
                  /\ structure[c].residues[k].seq = w[j].resnum
                  /\ structure[c].residues[k].resname = w[j].resname

\* a window was scanned whose chain holds a residue that is not an amino acid
\* between the window's second and third residue: the window goes around it
C23_Witness ==
  \E e \in LogEntries :
    LET c == datadict[e.chain].chain
        w == LogWindow(e)
    IN  \E k \in 1..Len(structure[c].residues) :
          /\ ~structure[c].residues[k].aa
          /\ w[2].resnum < structure[c].residues[k].seq
          /\ structure[c].residues[k].seq < w[3].resnum

\* the number of records printed for the first k windows scanned
PrintedUpTo(k) == Cardinality({m \in 1..k : log[m].turn > 0})

\* C24: the k-th record printed carries the turn index k: the indices start at
\* 1 and go up by exactly 1, without a gap and without a repeat. The records
\* come chain by chain in the order the chains were entered in the table, and
\* within a chain by ascending start index of the window.
C24_RecordsNumberedInScanOrder ==
  /\ \A a \in 1..Len(out) : out[a].turn = a
  /\ Len(out) = PrintedUpTo(Len(log))
  /\ \A e \in LogEntries :
       /\ e.turn > 0 =>
            /\ e.turn = PrintedUpTo(Len(log))
            /\ out[e.turn].chain = datadict[e.chain].id
            /\ out[e.turn].resnum1 = datadict[e.chain].rows[e.i + 1].resnum
       /\ \A k \in 1..(Len(log) - 1) :
            /\ log[k].chain <= e.chain
            /\ log[k].chain = e.chain => log[k].i < e.i
            /\ (log[k].turn > 0 /\ e.turn > 0) => log[k].turn < e.turn
  /\ \A c \in 1..(Len(datadict) - 1) : datadict[c].chain < datadict[c + 1].chain

\* three records printed: the second for a later window of the chain of the
\* first, the third for a window of the next chain
C24_Witness ==
  /\ Len(out) >= 3
  /\ \E k \in 1..Len(log) : \E m \in 1..Len(log) : \E n \in 1..Len(log) :
       /\ log[k].turn = 1 /\ log[m].turn = 2 /\ log[n].turn = 3
       /\ log[k].chain = log[m].chain
       /\ log[k].i < log[m].i
       /\ log[m].chain < log[n].chain
       /\ out[3].chain # out[2].chain

\* C25: the type code of a record is the nearest cluster of the window of
\* that record, never a value left from an earlier window. Every one of the 18
\* scores of a window is at most 4 and so below the initial minimum 100.0: in
\* every window scored, minturn is assigned in the loop and is the first
\* entry at the least distance, and the record's type and older name are
\* those of that entry.
C25_TypeIsOfThisWindow ==
  \A e \in LogEntries :
    e.scored =>
      LET sc == Scores(WindowAngles(LogWindow(e)))
          first == define_turn_library[FirstMin(sc)]
      IN  /\ \A t \in DOMAIN sc : sc[t] >= 0 /\ sc[t] <= 4 * 7 * ONE
          /\ 4 * 7 * ONE < MIND_START
          /\ e.minD = MinScore(sc)
          /\ e.minD < MIND_START
          /\ e.minturn = first.name
          /\ e.turn > 0 => /\ out[e.turn].type = first.name
                           /\ out[e.turn].prevname = first.prev_name
                           /\ out[e.turn].minD = MinScore(sc)

\* two windows scored one after the other, the first nearest to another type
\* than the second, and the second printed with its own type
C25_Witness ==
  \E k \in 1..Len(log) :
    /\ k + 1 = Len(log)
    /\ log[k].scored /\ log[k + 1].scored
    /\ log[k].chain = log[k + 1].chain
    /\ log[k].minturn # log[k + 1].minturn
    /\ log[k + 1].turn > 0
    /\ out[log[k + 1].turn].type = log[k + 1].minturn
    /\ out[log[k + 1].turn].type # log[k].minturn

\* C26: the angular deviation is for the printed record only. It never decides
\* whether a window is printed, and it never fails during a scan:
\* find_theta_in_degrees is called only for a window that has been accepted,
\* always with 0 <= D <= 0.2359, so that it never raises its ValueError.
C26_ThetaOnlyForAcceptedWindows ==
  /\ pc # "error"
  /\ raised.type # "ValueError"
  /\ IF call = NoCall
     THEN out = <<>>
     ELSE /\ call.fn = "find_theta_in_degrees"
          /\ ~call.raised
          /\ call.args[1] >= 0
          /\ call.args[1] <= TURN_DIST_CUTOFF
          /\ Len(out) > 0
          /\ call.args[1] = out[Len(out)].minD
          /\ call.result = out[Len(out)].mintheta
          /\ call.result \in 0..18000
  /\ \A e \in LogEntries :
       /\ (e.turn > 0) <=> Outcome(LogWindow(e)).emitted
       /\ e.turn = 0 => (call = NoCall \/ call.args[1] = out[Len(out)].minD)

\* a window at the cutoff exactly has been printed: the call was made with
\* D = 0.2359, the largest value main ever passes
C26_Witness ==
  /\ call.fn = "find_theta_in_degrees"
  /\ call.args[1] = TURN_DIST_CUTOFF
  /\ ~call.raised
  /\ Len(out) = 1
  /\ out[1].mintheta = call.result
  /\ call.result > 0

-----------------------------------------------------------------------------
(* What the file says, read by its structure: a loop runs from its "loop_"  *)
(* line to the first "#" after it, its item names come first, and every     *)
(* line of data between them that has one token per item is a row.          *)

LoopItems(lines, q) == SubSeq(lines, q + 1, ItemsEnd(lines, q + 1) - 1)

\* the "loop_" lines of the loops that have items of the category
LoopsOf(lines, cat) ==
  {q \in 1..Len(lines) :
     /\ lines[q].kind = "loop"
     /\ \E i \in 1..Len(LoopItems(lines, q)) : LoopItems(lines, q)[i].cat = cat}

\* the complete rows of data of the loop at q
RowsOfLoop(lines, q) ==
  {p \in (q + 1)..(HashFrom(lines, q + 1) - 1) :
     /\ lines[p].kind = "data"
     /\ Len(lines[p].tokens) = Len(LoopItems(lines, q))}

\* the fields of a category in the rows of its loops
FileRows(lines, cat) ==
  {RowVals(LoopItems(lines, q), lines[p].tokens, cat) :
     <<q, p>> \in {x \in LoopsOf(lines, cat) \X (1..Len(lines)) : x[2] \in RowsOfLoop(lines, x[1])}}

\* C27: in the dict parse_pdbx_poly_seq_scheme returns every key is the
\* (pdb_strand_id, pdb_seq_num) of a row of the loop (asym_id and auth_seq_num
\* standing in where the file lacks them), and no value dict has the key
\* fields 'pdb_strand_id' and 'pdb_seq_num' among its columns.
C27_KeyFieldsExcludedFromValue ==
  (call.fn = "parse_pdbx_poly_seq_scheme" /\ ~call.raised) =>
    \A key \in DOMAIN call.result :
      /\ \E rv \in FileRows(env.content, "_pdbx_poly_seq_scheme.") :
           /\ key[1] = (IF "pdb_strand_id" \in DOMAIN rv THEN rv["pdb_strand_id"] ELSE rv["asym_id"])
           /\ key[2] = (IF "pdb_seq_num" \in DOMAIN rv THEN rv["pdb_seq_num"] ELSE rv["auth_seq_num"])
      /\ "pdb_strand_id" \notin DOMAIN call.result[key]
      /\ "pdb_seq_num" \notin DOMAIN call.result[key]

\* C28: parse_dssp_struct_summary returns one entry, keyed by (label_asym_id,
\* label_seq_id), for every complete row of data of every loop that has
\* _dssp_struct_summary items, whatever loops come before it in the file (a
\* loop of another category with item names and no row of data before its "#"
\* among them), and nothing else: no line of another loop becomes an entry.
C28_EveryDsspRowReturned ==
  call.fn = "parse_dssp_struct_summary" =>
    /\ ~call.raised
    /\ DOMAIN call.result =
         {<<rv["label_asym_id"], rv["label_seq_id"]>> :
            rv \in FileRows(env.content, "_dssp_struct_summary.")}
    /\ \A rv \in FileRows(env.content, "_dssp_struct_summary.") :
         call.result[<<rv["label_asym_id"], rv["label_seq_id"]>>]["secondary_structure"]
           = rv["secondary_structure"]

====
